---- MODULE Spec2Model ----
(***************************************************************************)
(* zenoh-client-rs: serial framing codec (byte stuffing, length, CRC32),   *)
(* serial connect, and the client INIT/OPEN handshake.                     *)
(*                                                                         *)
(* Bytes are naturals 0..255.  Rust slices are 0-based; the model keeps    *)
(* the Rust index values in its variables and converts in Slice.           *)
(* 32-bit quantities are little-endian 4-byte sequences, because they do   *)
(* not fit the model checker's integers.                                   *)
(***************************************************************************)
EXTENDS Integers, Sequences, FiniteSets, TLC

\* ---------------------------------------------------------------- bounds
MaxShort == 3        \* payloads over Alphabet are enumerated up to this length
MaxLong == 272       \* longest generated payload of the codec specification

\* ------------------------------------------------------- program constants
COBS_BUF_SIZE == 1517
KIND_FIELD_LEN == 1
LEN_FIELD_LEN == 2
CRC32_LEN == 4
FLAG_INIT == 1
FLAG_ACK == 2
FLAG_RESET == 4

\* ------------------------------------------------------------ byte helpers
Byte == 0..255

RECURSIVE Xor8(_, _)
Xor8(a, b) ==
  IF a = 0 THEN b
  ELSE IF b = 0 THEN a
  ELSE ((a + b) % 2) + 2 * Xor8(a \div 2, b \div 2)

RECURSIVE And8(_, _)
And8(a, b) ==
  IF a = 0 \/ b = 0 THEN 0
  ELSE ((a % 2) * (b % 2)) + 2 * And8(a \div 2, b \div 2)

\* Rust s[a..b] (0-based, end exclusive)
Slice(s, a, b) == SubSeq(s, a + 1, b)
\* s[a..b] does not panic
SliceOk(s, a, b) == 0 <= a /\ a <= b /\ b <= Len(s)

Fill(n, b) == [i \in 1..n |-> b]

\* ------------------------------------------------------------------ CRC32
Shr1(c) ==
  << (c[1] \div 2) + 128 * (c[2] % 2),
     (c[2] \div 2) + 128 * (c[3] % 2),
     (c[3] \div 2) + 128 * (c[4] % 2),
     c[4] \div 2 >>

Xor32(c, d) == << Xor8(c[1], d[1]), Xor8(c[2], d[2]), Xor8(c[3], d[3]), Xor8(c[4], d[4]) >>

CRC_POLY == << 32, 131, 184, 237 >>      \* 0xEDB88320, little-endian bytes

RECURSIVE CrcBits(_, _)
CrcBits(c, k) ==
  IF k = 0 THEN c
  ELSE CrcBits(IF c[1] % 2 = 1 THEN Xor32(Shr1(c), CRC_POLY) ELSE Shr1(c), k - 1)

CrcTable == [n \in Byte |-> CrcBits(<<n, 0, 0, 0>>, 8)]

CrcUpdate(c, b) == Xor32(CrcTable[Xor8(c[1], b)], <<c[2], c[3], c[4], 0>>)

RECURSIVE CrcFold(_, _, _, _)
CrcFold(c, d, lo, hi) ==
  IF lo > hi THEN c
  ELSE IF lo = hi THEN CrcUpdate(c, d[lo])
  ELSE LET mid  == (lo + hi) \div 2
           left == CrcFold(c, d, lo, mid)
       IN IF left[1] \in Byte THEN CrcFold(left, d, mid + 1, hi) ELSE left

\* compute_crc32(data).to_le_bytes()
compute_crc32(d) == Xor32(CrcFold(<<255, 255, 255, 255>>, d, 1, Len(d)), <<255, 255, 255, 255>>)

\* (bytes_len as u16).to_le_bytes()
len_bytes(d) == << Len(d) % 256, (Len(d) \div 256) % 256 >>

\* ---------------------------------------------------------- wire primitives
Z_BATCH_UNICAST_SIZE == 2048
Z_MAX_MTU == 2048
Z_PROTO_VERSION == 9
Z_SN_RESOLUTION == 2
Z_REQ_RESOLUTION == 2
Z_TRANSPORT_LEASE == 10000
Z_DEFAULT_MULTICAST_BATCH_SIZE == 8192
Z_DEFAULT_RESOLUTION_SIZE == 2
LINK_MTU == 1500
COOKIE_CAP == 1024
Z_MID_T_INIT == 1
Z_MID_T_OPEN == 2
FLAG_A == 32
FLAG_S == 64
FLAG_T == 64
FLAG_Z == 128
WAI_CLIENT == 2

Pow2(k) == 2 ^ k

\* little-endian bytes of a value below 2^31
U16(n) == << n % 256, (n \div 256) % 256 >>
U32(n) == << n % 256, (n \div 256) % 256, (n \div 65536) % 256, (n \div 16777216) % 256 >>
\* "as u64" of little-endian bytes
AsU64(b) == [i \in 1..8 |-> IF i <= Len(b) THEN b[i] ELSE 0]

And32(a, b) == [i \in 1..4 |-> And8(a[i], b[i])]
Not32(a) == [i \in 1..4 |-> 255 - a[i]]

\* bit i (0-based) of little-endian bytes
Bit(b, i) == IF i \div 8 < Len(b) THEN (b[(i \div 8) + 1] \div Pow2(i % 8)) % 2 ELSE 0

\* number of bits up to the highest set one
BitLen(b) ==
  LET Set == {i \in 0..(8 * Len(b) - 1) : Bit(b, i) = 1}
  IN IF Set = {} THEN 0 ELSE (CHOOSE i \in Set : \A j \in Set : j <= i) + 1

\* "as usize" of a decoded length; a value that no buffer can hold is
\* represented by 2^24
AsUsize(b) ==
  IF \A i \in 4..Len(b) : b[i] = 0
  THEN b[1] + 256 * b[2] + 65536 * b[3]
  ELSE 16777216

\* Varint::encode: seven bits per byte, least-significant group first, the
\* high bit set on every byte but the last
VarintGroup(v, g) ==
  Bit(v, 7 * g) + 2 * Bit(v, 7 * g + 1) + 4 * Bit(v, 7 * g + 2) + 8 * Bit(v, 7 * g + 3)
    + 16 * Bit(v, 7 * g + 4) + 32 * Bit(v, 7 * g + 5) + 64 * Bit(v, 7 * g + 6)

VarintEnc(v) ==
  LET n == IF BitLen(v) = 0 THEN 1 ELSE (BitLen(v) + 6) \div 7
  IN [g \in 1..n |-> VarintGroup(v, g - 1) + (IF g < n THEN 128 ELSE 0)]

\* Varint::<T>::decode with size_of::<T>() = size, reading m from the 0-based
\* position pos: at most size + 1 bytes; n is the number of bytes read
VarintDec(m, pos, size) ==
  LET Stop == {k \in 1..(size + 1) : pos + k <= Len(m) /\ m[pos + k] < 128}
      n    == IF Stop = {} THEN size + 1 ELSE CHOOSE k \in Stop : \A j \in Stop : k <= j
      bitAt(i) == IF i \div 7 < n
                  THEN ((m[pos + (i \div 7) + 1] % 128) \div Pow2(i % 7)) % 2
                  ELSE 0
  IN IF n > Len(m) - pos
     THEN [ok |-> FALSE, n |-> 0, value |-> <<>>]
     ELSE [ok |-> TRUE, n |-> n,
           value |-> [j \in 1..size |->
                        bitAt(8 * j - 8) + 2 * bitAt(8 * j - 7) + 4 * bitAt(8 * j - 6)
                          + 8 * bitAt(8 * j - 5) + 16 * bitAt(8 * j - 4)
                          + 32 * bitAt(8 * j - 3) + 64 * bitAt(8 * j - 2)
                          + 128 * bitAt(8 * j - 1)]]

\* u32 % 1000, u32 / 1000 and u32 * 1000 on little-endian bytes
Rem1000(b) == ((((((b[4] % 1000) * 256 + b[3]) % 1000) * 256 + b[2]) % 1000) * 256 + b[1]) % 1000
Div1000(b) ==
  LET r3 == (b[4] * 256 + b[3]) % 1000
      r2 == (r3 * 256 + b[2]) % 1000
  IN << (r2 * 256 + b[1]) \div 1000, (r3 * 256 + b[2]) \div 1000, (b[4] * 256 + b[3]) \div 1000, 0 >>
Mul1000(b) ==
  LET c1 == b[1] * 1000
      c2 == b[2] * 1000 + c1 \div 256
      c3 == b[3] * 1000 + c2 \div 256
      c4 == b[4] * 1000 + c3 \div 256
  IN [overflow |-> c4 \div 256 # 0, value |-> << c1 % 256, c2 % 256, c3 % 256, c4 % 256 >>]

\* ZenohID: 16 little-endian bytes; size is the count without the leading
\* (most significant) zero bytes
ZID_MAX_SIZE == 16
ZenohID(b) == [i \in 1..ZID_MAX_SIZE |-> IF i <= Len(b) THEN b[i] ELSE 0]
ZidSize(z) ==
  LET NZ == {i \in 1..ZID_MAX_SIZE : z[i] # 0}
  IN IF NZ = {} THEN 0 ELSE CHOOSE i \in NZ : \A j \in NZ : j <= i

\* Cookie::from_slice and Cookie::as_slice: a 1024-byte array and a length
Cookie_from_slice(slice) ==
  [cookie |-> [i \in 1..COOKIE_CAP |-> IF i <= Len(slice) THEN slice[i] ELSE 0],
   len |-> Len(slice)]
Cookie_as_slice(c) == SubSeq(c.cookie, 1, c.len)
NoCookie == [cookie |-> <<>>, len |-> 0]

\* _z_sn_modulo_mask
sn_modulo_mask(bits) ==
  IF bits = 0 THEN <<127, 0, 0, 0>>
  ELSE IF bits = 1 THEN <<255, 63, 0, 0>>
  ELSE IF bits = 2 THEN <<255, 255, 255, 15>>
  ELSE <<255, 255, 255, 255>>

\* ------------------------------------------------------ handshake messages
\* a decoded transport message; kind is the variant of TransportBody
InitMsg(kind, version, whatami, zid, seq_num_res, req_id_res, batch_size, has_cookie, cookie) ==
  [kind |-> kind, version |-> version, whatami |-> whatami, zid |-> zid,
   seq_num_res |-> seq_num_res, req_id_res |-> req_id_res, batch_size |-> batch_size,
   has_cookie |-> has_cookie, cookie |-> cookie,
   lease |-> <<0, 0, 0, 0>>, initial_sn |-> <<0, 0, 0, 0>>]
OpenMsg(kind, lease, initial_sn, has_cookie, cookie) ==
  [kind |-> kind, version |-> 0, whatami |-> 0, zid |-> ZenohID(<<>>),
   seq_num_res |-> 0, req_id_res |-> 0, batch_size |-> 0,
   has_cookie |-> has_cookie, cookie |-> cookie,
   lease |-> lease, initial_sn |-> initial_sn]
NoMsg == OpenMsg("none", <<0, 0, 0, 0>>, <<0, 0, 0, 0>>, FALSE, <<>>)

\* the result of an encode: Ok with the bytes written, EncodeError, or panic
EncResult(st, b) == [status |-> st, bytes |-> b]
\* a ZVec holds Z_MAX_MTU bytes; a write beyond that is DidntWrite
ZVecWrite(b) == IF Len(b) > Z_MAX_MTU THEN EncResult("EncodeError", <<>>) ELSE EncResult("Ok", b)

\* InitSyn::new
InitSyn_new(whatami, zid) ==
  InitMsg("InitSyn", Z_PROTO_VERSION, whatami, zid, Z_SN_RESOLUTION, Z_REQ_RESOLUTION,
          Z_BATCH_UNICAST_SIZE, FALSE, <<>>)

\* InitSyn::header
InitSyn_header(ism) ==
  IF \/ ism.batch_size # Z_DEFAULT_MULTICAST_BATCH_SIZE
     \/ ism.seq_num_res # Z_DEFAULT_RESOLUTION_SIZE
     \/ ism.req_id_res # Z_DEFAULT_RESOLUTION_SIZE
  THEN Z_MID_T_INIT + FLAG_S
  ELSE Z_MID_T_INIT

\* InitSyn::encode; (size as u8 - 1) underflows for the zero identifier:
\* a panic with overflow checks, 0xFF without
InitSyn_encode(ism, checks) ==
  LET hdr   == InitSyn_header(ism)
      size  == ZidSize(ism.zid)
      flags == (((IF size = 0 THEN 255 ELSE size - 1) * 16) % 256) + ism.whatami
      sizes == IF And8(hdr, FLAG_S) = FLAG_S
               THEN <<(ism.seq_num_res % 4) + (ism.req_id_res % 4) * 4>> \o U16(ism.batch_size)
               ELSE <<>>
      ck    == IF And8(hdr, FLAG_A) = FLAG_A /\ ism.has_cookie THEN ism.cookie ELSE <<>>
  IN IF size = 0 /\ checks
     THEN EncResult("panic", <<>>)
     ELSE ZVecWrite(<<hdr, ism.version, flags>> \o SubSeq(ism.zid, 1, size) \o sizes \o ck)

\* the result of a decode; alloc tells that a cookie slot was taken
DecResult(st, m, a) == [status |-> st, msg |-> m, alloc |-> a]
DecFail(st) == DecResult(st, NoMsg, FALSE)

\* a length-prefixed slice at the 0-based position pos: Varint::<u64>::decode
\* as usize, then read_slice_in_place, which fails when nothing remains
\* (also for a length of zero) or when the length exceeds what remains
ReadCookie(m, pos) ==
  LET vl   == VarintDec(m, pos, 8)
      clen == AsUsize(vl.value)
      cpos == pos + vl.n
  IN IF ~vl.ok THEN [ok |-> FALSE, cookie |-> <<>>]
     ELSE IF Len(m) - cpos = 0 \/ clen > Len(m) - cpos THEN [ok |-> FALSE, cookie |-> <<>>]
     ELSE [ok |-> TRUE, cookie |-> Slice(m, cpos, cpos + clen)]

\* InitSyn::decode, the header byte already read; free is the number of free
\* slots of the cookie pool
InitSyn_decode(m, hdr, free) ==
  LET cbyte   == m[3]
      zid_len == (cbyte \div 16) + 1
      spos    == 3 + zid_len
      S       == And8(hdr, FLAG_S) = FLAG_S
      A       == And8(hdr, FLAG_A) = FLAG_A
      Z       == And8(hdr, FLAG_Z) = FLAG_Z
      sn      == IF S THEN m[spos + 1] % 4 ELSE Z_DEFAULT_RESOLUTION_SIZE
      rid     == IF S THEN (m[spos + 1] \div 4) % 4 ELSE Z_DEFAULT_RESOLUTION_SIZE
      batch   == IF S THEN m[spos + 2] + 256 * m[spos + 3] ELSE Z_DEFAULT_MULTICAST_BATCH_SIZE
      apos    == IF S THEN spos + 3 ELSE spos
      ck      == ReadCookie(m, apos)
      msg(kind, has, c) ==
        InitMsg(kind, m[2], cbyte % 4, ZenohID(Slice(m, 3, spos)), sn, rid, batch, has, c)
  IN IF Len(m) < 3 THEN DecFail("DecodeError")
     ELSE IF cbyte % 4 = 3 THEN DecFail("panic")
     ELSE IF zid_len > Len(m) - 3 THEN DecFail("DecodeError")
     ELSE IF S /\ Len(m) - spos < 3 THEN DecFail("DecodeError")
     ELSE IF ~A THEN (IF Z THEN DecFail("panic")
                      ELSE DecResult("Ok", msg("InitSyn", FALSE, <<>>), FALSE))
     ELSE IF ~ck.ok THEN DecFail("DecodeError")
     ELSE IF Len(ck.cookie) > COOKIE_CAP THEN DecFail("panic")
     ELSE IF free = 0 THEN DecFail("MoreCookieAllocated")
     ELSE IF Z THEN DecFail("panic")
     ELSE DecResult("Ok", msg("InitAck", TRUE, ck.cookie), TRUE)

\* OpenSyn::header
OpenSyn_header(lease) ==
  IF Rem1000(lease) = 0 THEN Z_MID_T_OPEN + FLAG_T ELSE Z_MID_T_OPEN

\* OpenSyn::encode of OpenSyn::new(lease, initial_sn, Some(cookie))
OpenSyn_encode(lease, initial_sn, cookie) ==
  LET hdr == OpenSyn_header(lease)
      l   == IF And8(hdr, FLAG_T) = FLAG_T THEN Div1000(lease) ELSE lease
      ck  == IF And8(hdr, FLAG_A) = 0
             THEN VarintEnc(AsU64(U32(Len(cookie)))) \o cookie
             ELSE <<>>
  IN ZVecWrite(<<hdr>> \o VarintEnc(AsU64(l)) \o VarintEnc(AsU64(initial_sn)) \o ck)

\* OpenSyn::encode of OpenSyn::new(lease, initial_sn, cookie) with cookie
\* None or Some: nothing is written for None
OpenSyn_encode_opt(lease, initial_sn, has_cookie, cookie) ==
  IF has_cookie THEN OpenSyn_encode(lease, initial_sn, cookie)
  ELSE LET hdr == OpenSyn_header(lease)
           l   == IF And8(hdr, FLAG_T) = FLAG_T THEN Div1000(lease) ELSE lease
       IN ZVecWrite(<<hdr>> \o VarintEnc(AsU64(l)) \o VarintEnc(AsU64(initial_sn)))

\* OpenSyn::decode, the header byte already read; lease * 1000 overflows u32
\* for a lease above 4294967 seconds: a panic with overflow checks, the
\* wrapped product without
OpenSyn_decode(m, hdr, checks) ==
  LET vl    == VarintDec(m, 1, 4)
      T     == And8(hdr, FLAG_T) = FLAG_T
      A     == And8(hdr, FLAG_A) = FLAG_A
      Z     == And8(hdr, FLAG_Z) = FLAG_Z
      mul   == Mul1000(vl.value)
      lease == IF T THEN mul.value ELSE vl.value
      vs    == VarintDec(m, 1 + vl.n, 4)
      ck    == ReadCookie(m, 1 + vl.n + vs.n)
  IN IF ~vl.ok THEN DecFail("DecodeError")
     ELSE IF T /\ mul.overflow /\ checks THEN DecFail("panic")
     ELSE IF ~vs.ok THEN DecFail("DecodeError")
     ELSE IF ~A /\ ~ck.ok THEN DecFail("DecodeError")
     ELSE IF Z THEN DecFail("panic")
     ELSE IF A THEN DecResult("Ok", OpenMsg("OpenAck", lease, vs.value, FALSE, <<>>), FALSE)
     ELSE DecResult("Ok", OpenMsg("OpenSyn", lease, vs.value, TRUE, ck.cookie), FALSE)

\* TransportMessage::decode: the message id is in bits 4..0 of the first
\* byte; ids other than INIT and OPEN are not realized
TransportMessage_decode(m, free, checks) ==
  IF Len(m) = 0 THEN DecFail("DecodeError")
  ELSE IF m[1] % 32 = Z_MID_T_INIT THEN InitSyn_decode(m, m[1], free)
  ELSE IF m[1] % 32 = Z_MID_T_OPEN THEN OpenSyn_decode(m, m[1], checks)
  ELSE DecFail("UnexpectMsg")

\* UnicastParams::default
UnicastParams_default ==
  [zid |-> ZenohID(<<>>), batch_size |-> 0, initial_sn_rx |-> <<0, 0, 0, 0>>,
   initial_sn_tx |-> <<0, 0, 0, 0>>, lease |-> U32(Z_TRANSPORT_LEASE), whatami |-> WAI_CLIENT,
   key_id_res |-> 0, req_id_res |-> 0, seq_num_res |-> 0, is_qos |-> FALSE]

\* ------------------------------------------------------ the peer's answers
\* INIT layout: header, version, zid_len and whatami, zid, the size
\* parameters when S is set, the length-prefixed cookie when A is set
PeerInitBytes(r) ==
  (<<r.hdr, r.version, (Len(r.zid) - 1) * 16 + r.whatami>> \o r.zid)
    \o (IF And8(r.hdr, FLAG_S) = FLAG_S THEN <<r.sn + 4 * r.rid>> \o U16(r.batch) ELSE <<>>)
    \o (IF And8(r.hdr, FLAG_A) = FLAG_A
        THEN VarintEnc(AsU64(U32(Len(r.cookie)))) \o r.cookie
        ELSE <<>>)

PeerInit(hdr, version, whatami, z, sn, rid, batch, cookie, cut, corrupt) ==
  [hdr |-> hdr, version |-> version, whatami |-> whatami, zid |-> z, sn |-> sn, rid |-> rid,
   batch |-> batch, cookie |-> cookie, cut |-> cut, corrupt |-> corrupt]
NoPeerInit == PeerInit(0, 0, 0, <<>>, 0, 0, 0, <<>>, 0, FALSE)
\* INIT-ACK with S: the parameters of the INIT-SYN and a 4-byte cookie
BaseInit == PeerInit(Z_MID_T_INIT + FLAG_A + FLAG_S, Z_PROTO_VERSION, 0, <<73>>,
                     Z_SN_RESOLUTION, Z_REQ_RESOLUTION, Z_BATCH_UNICAST_SIZE,
                     <<202, 254, 240, 13>>, 0, FALSE)
\* INIT-ACK without S: 21 09 02 49 04 CA FE F0 0D
PlainInit == [BaseInit EXCEPT !.hdr = Z_MID_T_INIT + FLAG_A, !.whatami = WAI_CLIENT]

\* the message ids of Close, KeepAlive, Frame, Fragment and Join
ReservedIds == {3, 4, 5, 6, 7}

CookieLens == {0, 1, 130, COOKIE_CAP, COOKIE_CAP + 1}
PeerCookie(n) == [i \in 1..n |-> IF n = 1 THEN 0 ELSE (i % 255) + 1]

InitReplies ==
  {[BaseInit EXCEPT !.sn = v] : v \in 0..3}
    \cup {[BaseInit EXCEPT !.rid = v] : v \in {0, 3}}
    \cup {[BaseInit EXCEPT !.batch = v] : v \in {1024, Z_BATCH_UNICAST_SIZE + 1, 8192}}
    \cup {[BaseInit EXCEPT !.sn = 1, !.rid = 1, !.batch = 1]}
    \cup {[BaseInit EXCEPT !.cookie = PeerCookie(n)] : n \in CookieLens}
    \cup {PlainInit}
    \cup {[BaseInit EXCEPT !.hdr = h] : h \in {Z_MID_T_INIT + FLAG_S,
                                                Z_MID_T_INIT + FLAG_A + FLAG_S + FLAG_Z,
                                                Z_MID_T_OPEN + FLAG_A} \cup ReservedIds}
    \cup {[BaseInit EXCEPT !.version = Z_PROTO_VERSION - 1],
          [BaseInit EXCEPT !.whatami = 3],
          [BaseInit EXCEPT !.zid = [i \in 1..ZID_MAX_SIZE |-> i]],
          [BaseInit EXCEPT !.cut = 2],
          [BaseInit EXCEPT !.corrupt = TRUE]}

\* OPEN layout: header, lease, initial_sn, the length-prefixed cookie when A
\* is clear; as_init stands for an INIT-ACK sent in place of an OPEN message
PeerOpen(hdr, lease, isn, cookie, as_init) ==
  [hdr |-> hdr, lease |-> lease, isn |-> isn, cookie |-> cookie, as_init |-> as_init,
   corrupt |-> FALSE]
NoPeerOpen == PeerOpen(0, <<0, 0, 0, 0>>, <<0, 0, 0, 0>>, <<>>, FALSE)
PeerOpenBytes(r) ==
  IF r.as_init THEN PeerInitBytes(BaseInit)
  ELSE (<<r.hdr>> \o VarintEnc(AsU64(r.lease)) \o VarintEnc(AsU64(r.isn)))
         \o (IF And8(r.hdr, FLAG_A) = 0
             THEN VarintEnc(AsU64(U32(Len(r.cookie)))) \o r.cookie
             ELSE <<>>)

OpenReplies ==
  {PeerOpen(Z_MID_T_OPEN + FLAG_A + FLAG_T, U32(10), U32(74565), <<>>, FALSE),
   PeerOpen(Z_MID_T_OPEN + FLAG_A, U32(2500), <<255, 255, 255, 255>>, <<>>, FALSE),
   PeerOpen(Z_MID_T_OPEN + FLAG_A + FLAG_T, U32(4294968), U32(0), <<>>, FALSE),
   PeerOpen(Z_MID_T_OPEN + FLAG_T, U32(10), U32(1), <<202, 254>>, FALSE),
   PeerOpen(Z_MID_T_OPEN + FLAG_A + FLAG_Z, U32(10), U32(1), <<>>, FALSE),
   PeerOpen(3, U32(10), U32(1), <<>>, FALSE),
   PeerOpen(4, U32(10), U32(1), <<>>, FALSE),
   PeerOpen(7 + FLAG_A, U32(10), U32(1), <<>>, FALSE),
   PeerOpen(0, U32(0), U32(0), <<>>, TRUE),
   [PeerOpen(Z_MID_T_OPEN + FLAG_A + FLAG_T, U32(10), U32(1), <<>>, FALSE) EXCEPT !.corrupt = TRUE]}


\* ------------------------------------------------------------------ state
VARIABLES
  pc,              \* position of the program
  ret,             \* where the caller of internal_send continues
  overflow_checks, \* build profile: TRUE when usize underflow panics at once
  codec_state, overhead, prev_data,
  data_start_idx, data_idx, crc_start_idx, crc_idx,
  header, data, crc_bytes,
  tx,              \* every byte handed to the writer, in order
  flushed,         \* number of bytes of tx committed by the last flush
  rx,              \* bytes the reader has still to deliver
  rd,              \* result of the last internal_read
  log,             \* frames sent, frames read and delays, in program order
  prog,            \* the entry point that runs: "codec", "connect" or "client"
  conn_result,     \* what connect returned, "none" before it returns
  zid,             \* Config::id
  rng_draw,        \* the u32 that SmallRng::seed_from_u64(0).random() yields
  params,          \* the UnicastParams that handshake builds
  cache,           \* Unicast::cache
  open_cache,      \* Unicast::open_cache
  pool_free,       \* free slots of the cookie pool P
  slot,            \* the Cookie in the allocated slot, NoCookie when free
  iam,             \* the decoded INIT-ACK, its cookie being in slot
  result,          \* what handshake returned, "none" before it returns
  peer_init,       \* what the peer answered to INIT-SYN
  peer_open,       \* what the peer answered to OPEN-SYN
  arg,             \* the value handed to an operation that runs on its own
  out              \* what it wrote and returned

encVars == << codec_state, overhead, prev_data, data_start_idx, data_idx,
              crc_start_idx, crc_idx, header, data, crc_bytes >>
hsVars == << zid, rng_draw, params, cache, open_cache, pool_free, slot, iam, result,
             peer_init, peer_open >>
fnVars == << arg, out >>
ctxVars == << prog, conn_result, hsVars, fnVars >>
vars == << pc, ret, overflow_checks, encVars, tx, flushed, rx, rd, log, ctxVars >>

bytes_len == Len(data)

NoOut == [bytes |-> <<>>, status |-> "none", value |-> <<>>, n |-> 0]
NoRead == [status |-> "none", size |-> 0, header |-> 0, buf |-> <<>>]

\* an entry of log: a frame sent (header, payload), a frame read (header,
\* payload; header 0 and no payload when the read failed), a delay (ms)
Ev(e, n, b) == [ev |-> e, n |-> n, bytes |-> b]


\* ------------------------------------------------- framing encoder (send)
\* send_patch: the overhead byte, then the bytes of the block
\* a writer that gets the overhead byte of every block twice
send_patch_twice(t, o, d) == ((t \o <<o>>) \o <<o>>) \o d
send_patch(t, o, d) == (t \o <<o>>) \o d

\* internal_send, lines 129-141: locals and the codec state before the loop
StartSend(h, d, r) ==
  /\ header' = h
  /\ data' = d
  /\ crc_bytes' = compute_crc32(d)
  /\ overhead' = 1
  /\ prev_data' = <<>>
  /\ data_start_idx' = 0
  /\ data_idx' = 0
  /\ crc_start_idx' = 0
  /\ crc_idx' = 0
  /\ codec_state' = "Header"
  /\ pc' = "internal_send"
  /\ ret' = r

\* a panic inside the encoder: the bytes written so far stay written
EncPanic(t) ==
  /\ tx' = t
  /\ pc' = "panic"
  /\ UNCHANGED << ret, overflow_checks, encVars, flushed, rx, rd, log, ctxVars >>

EncHeader ==
  /\ pc = "internal_send"
  /\ codec_state = "Header"
  /\ IF header = 0
     THEN /\ tx' = send_patch(tx, overhead, <<>>)
          /\ overhead' = 1
          /\ prev_data' = prev_data
     ELSE /\ tx' = tx
          /\ overhead' = overhead + 1
          /\ prev_data' = Append(prev_data, header)
  /\ codec_state' = "LenLSB"
  /\ UNCHANGED << pc, ret, overflow_checks, data_start_idx, data_idx, crc_start_idx,
                  crc_idx, header, data, crc_bytes, flushed, rx, rd, log, ctxVars >>

EncLenLSB ==
  /\ pc = "internal_send"
  /\ codec_state = "LenLSB"
  /\ IF len_bytes(data)[1] = 0
     THEN /\ tx' = send_patch(tx, overhead, IF prev_data = <<>> THEN <<>> ELSE <<Head(prev_data)>>)
          /\ overhead' = 1
          /\ prev_data' = IF prev_data = <<>> THEN <<>> ELSE Tail(prev_data)
     ELSE /\ tx' = tx
          /\ overhead' = overhead + 1
          /\ prev_data' = Append(prev_data, len_bytes(data)[1])
  /\ codec_state' = "LenMSB"
  /\ UNCHANGED << pc, ret, overflow_checks, data_start_idx, data_idx, crc_start_idx,
                  crc_idx, header, data, crc_bytes, flushed, rx, rd, log, ctxVars >>

EncLenMSB ==
  /\ pc = "internal_send"
  /\ codec_state = "LenMSB"
  /\ IF len_bytes(data)[2] = 0
     THEN /\ tx' = send_patch(tx, overhead, prev_data)
          /\ overhead' = 1
          /\ prev_data' = <<>>
     ELSE /\ tx' = tx
          /\ overhead' = overhead + 1
          /\ prev_data' = Append(prev_data, len_bytes(data)[2])
  /\ codec_state' = "Data"
  /\ UNCHANGED << pc, ret, overflow_checks, data_start_idx, data_idx, crc_start_idx,
                  crc_idx, header, data, crc_bytes, flushed, rx, rd, log, ctxVars >>

\* One iteration of the Data arm (lines 198-235) as a record: the bytes
\* written, the new data_start_idx, overhead and prev_data, or a panic.
\* skip is 1 when the block ends at a zero byte of data, which is not sent.
DataFlush(skip) ==
  LET end0 == data_start_idx + overhead - 1
      end  == end0 - Len(prev_data)
  IN IF prev_data # <<>>
     THEN IF end < 0 /\ overflow_checks
          THEN [panic |-> TRUE, tx |-> tx, start |-> 0, overhead |-> 0, prev |-> <<>>]
          ELSE IF ~SliceOk(data, data_start_idx, end)
          THEN [panic |-> TRUE, tx |-> send_patch(tx, overhead, prev_data),
                start |-> 0, overhead |-> 0, prev |-> <<>>]
          ELSE [panic |-> FALSE,
                tx |-> send_patch(tx, overhead, prev_data) \o Slice(data, data_start_idx, end),
                start |-> end + skip, overhead |-> 1, prev |-> <<>>]
     ELSE IF ~SliceOk(data, data_start_idx, end0)
          THEN [panic |-> TRUE, tx |-> tx, start |-> 0, overhead |-> 0, prev |-> <<>>]
          ELSE [panic |-> FALSE,
                tx |-> send_patch(tx, overhead, Slice(data, data_start_idx, end0)),
                start |-> end0 + skip, overhead |-> 1, prev |-> <<>>]

DataArm ==
  IF overhead = 255 THEN DataFlush(0)
  ELSE IF data[data_idx + 1] = 0 THEN DataFlush(1)
  ELSE [panic |-> FALSE, tx |-> tx, start |-> data_start_idx,
        overhead |-> overhead + 1, prev |-> prev_data]

EncData ==
  /\ pc = "internal_send"
  /\ codec_state = "Data"
  /\ IF data = <<>>
     THEN /\ codec_state' = "Crc"
          /\ UNCHANGED << pc, ret, overflow_checks, overhead, prev_data, data_start_idx,
                          data_idx, crc_start_idx, crc_idx, header, data, crc_bytes,
                          tx, flushed, rx, rd, log, ctxVars >>
     ELSE LET a == DataArm
          IN IF a.panic
             THEN EncPanic(a.tx)
             ELSE /\ tx' = a.tx
                  /\ data_start_idx' = a.start
                  /\ overhead' = a.overhead
                  /\ prev_data' = a.prev
                  /\ data_idx' = data_idx + 1
                  /\ codec_state' = IF data_idx + 1 >= bytes_len THEN "Crc" ELSE "Data"
                  /\ UNCHANGED << pc, ret, overflow_checks, crc_start_idx, crc_idx,
                                  header, data, crc_bytes, flushed, rx, rd, log, ctxVars >>

\* One iteration of the Crc arm up to "crc_idx += 1" (lines 243-302).
CrcPanic(t) ==
  [panic |-> TRUE, tx |-> t, dstart |-> 0, cstart |-> 0, overhead |-> 0, prev |-> <<>>]

CrcFlush(skip) ==
  LET end0 == crc_start_idx + overhead - 1
  IN IF prev_data # <<>>
     THEN LET end == (end0 - Len(prev_data)) - bytes_len
              t1  == send_patch(tx, overhead, prev_data)
          IN IF end < 0 /\ overflow_checks THEN CrcPanic(tx)
             ELSE IF ~SliceOk(data, data_start_idx, bytes_len) THEN CrcPanic(t1)
             ELSE IF ~SliceOk(crc_bytes, crc_start_idx, end)
             THEN CrcPanic(t1 \o Slice(data, data_start_idx, bytes_len))
             ELSE [panic |-> FALSE,
                   tx |-> (t1 \o Slice(data, data_start_idx, bytes_len))
                              \o Slice(crc_bytes, crc_start_idx, end),
                   dstart |-> data_start_idx, cstart |-> end + skip,
                   overhead |-> 1, prev |-> <<>>]
     ELSE IF data_start_idx < bytes_len
     THEN LET end == end0 - (bytes_len - data_start_idx)
              t1  == send_patch(tx, overhead, Slice(data, data_start_idx, bytes_len))
          IN IF end < 0 /\ overflow_checks THEN CrcPanic(tx)
             ELSE IF ~SliceOk(crc_bytes, crc_start_idx, end) THEN CrcPanic(t1)
             ELSE [panic |-> FALSE,
                   tx |-> t1 \o Slice(crc_bytes, crc_start_idx, end),
                   dstart |-> bytes_len, cstart |-> end + skip,
                   overhead |-> 1, prev |-> <<>>]
     ELSE IF ~SliceOk(crc_bytes, crc_start_idx, end0) THEN CrcPanic(tx)
          ELSE [panic |-> FALSE,
                tx |-> send_patch(tx, overhead, Slice(crc_bytes, crc_start_idx, end0)),
                dstart |-> data_start_idx, cstart |-> end0 + skip,
                overhead |-> 1, prev |-> <<>>]

CrcArm ==
  IF overhead = 255 THEN CrcFlush(0)
  ELSE IF crc_bytes[crc_idx + 1] = 0 THEN CrcFlush(1)
  ELSE [panic |-> FALSE, tx |-> tx, dstart |-> data_start_idx, cstart |-> crc_start_idx,
        overhead |-> overhead + 1, prev |-> prev_data]

\* lines 306-322 and 328-331: the last block, the terminator and the flush
\* an encoder that leaves the terminator out
LastPatchOpen(a) ==
  (send_patch(a.tx, a.overhead, a.prev)
      \o (IF a.dstart < bytes_len THEN Slice(data, a.dstart, bytes_len) ELSE <<>>))
      \o (IF a.cstart < 4 THEN Slice(crc_bytes, a.cstart, 4) ELSE <<>>)

LastPatch(a) ==
  ((send_patch(a.tx, a.overhead, a.prev)
      \o (IF a.dstart < bytes_len THEN Slice(data, a.dstart, bytes_len) ELSE <<>>))
      \o (IF a.cstart < 4 THEN Slice(crc_bytes, a.cstart, 4) ELSE <<>>))
      \o <<0>>

EncCrc ==
  /\ pc = "internal_send"
  /\ codec_state = "Crc"
  /\ LET a == CrcArm
     IN IF a.panic
        THEN EncPanic(a.tx)
        ELSE /\ data_start_idx' = a.dstart
             /\ crc_start_idx' = a.cstart
             /\ overhead' = a.overhead
             /\ crc_idx' = crc_idx + 1
             /\ IF crc_idx + 1 >= 4
                THEN /\ tx' = LastPatch(a)
                     /\ flushed' = Len(tx')
                     /\ prev_data' = <<>>
                     /\ log' = Append(log, Ev("send", header, data))
                     /\ pc' = ret
                ELSE /\ tx' = a.tx
                     /\ prev_data' = a.prev
                     /\ UNCHANGED << pc, flushed, log >>
             /\ UNCHANGED << ret, overflow_checks, codec_state, data_idx,
                             header, data, crc_bytes, rx, rd, ctxVars >>


\* ------------------------------------------------ framing decoder (recv)
\* 0-based index of the first 0x00 of b, Len(b) when there is none
FirstZero(b) ==
  LET Z == {i \in 1..Len(b) : b[i] = 0}
  IN IF Z = {} THEN Len(b) ELSE (CHOOSE i \in Z : \A j \in Z : i <= j) - 1

\* cobs::decode_in_place: the blocks of b[0..end], s is source_index
RECURSIVE CobsBlocks(_, _, _, _)
CobsBlocks(b, end, s, acc) ==
  IF s >= end THEN [ok |-> TRUE, out |-> acc]
  ELSE LET code == b[s + 1]
       IN IF s + code > end /\ code # 1
          THEN [ok |-> FALSE, out |-> acc]
          ELSE CobsBlocks(b, end, s + code,
                          (acc \o Slice(b, s + 1, s + code))
                             \o (IF code # 255 /\ s + code < end THEN <<0>> ELSE <<>>))

\* cobs::decode_in_place_with_sentinel(source, 0): the decoded bytes replace
\* the start of the buffer, the bytes behind them keep their stuffed values
decode_in_place_with_sentinel(b) ==
  LET r == CobsBlocks(b, FirstZero(b), 0, <<>>)
  IN [ok |-> r.ok, n |-> Len(r.out), buf |-> r.out \o SubSeq(b, Len(r.out) + 1, Len(b))]

ReadResult(st, sz, h, b) == [status |-> st, size |-> sz, header |-> h, buf |-> b]

deserialize_from(source) ==
  LET dec == decode_in_place_with_sentinel(source)
      b   == dec.buf
  IN IF ~dec.ok THEN ReadResult("DecodeError", 0, 0, <<>>)
     ELSE IF Len(b) < 3 THEN ReadResult("panic", 0, 0, <<>>)
     ELSE LET wire_size == b[2] + 256 * b[3]
          IN IF wire_size + KIND_FIELD_LEN + LEN_FIELD_LEN + CRC32_LEN > Len(b)
             THEN ReadResult("DecodeError", 0, 0, <<>>)
             ELSE IF compute_crc32(Slice(b, KIND_FIELD_LEN + LEN_FIELD_LEN,
                                         KIND_FIELD_LEN + wire_size + LEN_FIELD_LEN))
                       # Slice(b, KIND_FIELD_LEN + LEN_FIELD_LEN + wire_size,
                               KIND_FIELD_LEN + LEN_FIELD_LEN + wire_size + CRC32_LEN)
             THEN ReadResult("CrcError", 0, 0, <<>>)
             ELSE ReadResult("Ok", wire_size, b[1], Slice(b, 3, 3 + wire_size))

\* a read loop that fills the buffer before it looks for the terminator
ReadCountFull(stream, buflen) == buflen

\* number of bytes internal_read takes from the reader for a buffer of
\* buflen bytes: up to and including the first 0x00, at most buflen
ReadCount(stream, buflen) ==
  IF FirstZero(stream) < buflen /\ FirstZero(stream) < Len(stream)
  THEN FirstZero(stream) + 1
  ELSE buflen

\* the reader can deliver what internal_read asks for
CanRead(stream, buflen) == ReadCount(stream, buflen) <= Len(stream)

\* a read loop that gives up one byte before the buffer is full
internal_read_short(stream, buflen) ==
  IF FirstZero(stream) < buflen - 1 /\ FirstZero(stream) < Len(stream)
  THEN deserialize_from(Slice(stream, 0, FirstZero(stream) + 1))
  ELSE ReadResult("Ok", 0, 0, <<>>)

\* internal_read(buf) with buf.len() = buflen; buf of the result is
\* buf[0..size] after copy_within
internal_read(stream, buflen) ==
  IF FirstZero(stream) < buflen /\ FirstZero(stream) < Len(stream)
  THEN deserialize_from(Slice(stream, 0, FirstZero(stream) + 1))
  ELSE ReadResult("Ok", 0, 0, <<>>)

\* --------------------------------------------------- codec: send, then recv
Alphabet == {0, 1, 255}
Headers == {0, 1, 3, 255}
ShortPayloads == UNION {[1..n -> Alphabet] : n \in 0..MaxShort}
LongLens == {250, 251, 255, 256, MaxLong}
\* 1-based position of the single zero byte of a long payload, 0 for none
ZeroPos == {0, 255, 263}
LongPayload(n, z) == [i \in 1..n |-> IF i = z THEN 0 ELSE 1]
LongPayloads == {LongPayload(n, z) : n \in LongLens, z \in ZeroPos}

InitCommon ==
  /\ overflow_checks \in BOOLEAN
  /\ codec_state = "Header"
  /\ overhead = 1
  /\ prev_data = <<>>
  /\ data_start_idx = 0
  /\ data_idx = 0
  /\ crc_start_idx = 0
  /\ crc_idx = 0
  /\ crc_bytes = <<0, 0, 0, 0>>
  /\ ret = "none"
  /\ tx = <<>>
  /\ flushed = 0
  /\ rx = <<>>
  /\ rd = NoRead
  /\ log = <<>>
  /\ conn_result = "none"
  /\ params = UnicastParams_default
  /\ cache = <<>>
  /\ open_cache = <<>>
  /\ pool_free = 0
  /\ slot = NoCookie
  /\ iam = NoMsg
  /\ result = "none"
  /\ peer_init = NoPeerInit
  /\ peer_open = NoPeerOpen
  /\ out = NoOut

InitCodec ==
  /\ InitCommon
  /\ arg = <<>>
  /\ prog = "codec"
  /\ zid = ZenohID(<<73>>)
  /\ rng_draw = <<0, 0, 0, 0>>
  /\ pc = "codec_call"
  /\ \/ header \in Headers /\ data \in ShortPayloads
     \/ header \in {0, 1} /\ data \in LongPayloads

\* the caller's internal_send(header, data)
CodecSend ==
  /\ pc = "codec_call"
  /\ StartSend(header, data, "codec_read")
  /\ UNCHANGED << overflow_checks, tx, flushed, rx, rd, log, ctxVars >>

\* the written bytes are fed to internal_read with a COBS_BUF_SIZE buffer
CodecRead ==
  /\ pc = "codec_read"
  /\ rd' = internal_read(tx, COBS_BUF_SIZE)
  /\ pc' = "codec_done"
  /\ log' = Append(log, Ev("read", rd'.header, rd'.buf))
  /\ UNCHANGED << ret, overflow_checks, encVars, tx, flushed, rx, ctxVars >>

Encode == EncHeader \/ EncLenLSB \/ EncLenMSB \/ EncData \/ EncCrc

NextCodec == CodecSend \/ EncHeader \/ EncLenLSB \/ EncLenMSB \/ EncData \/ EncCrc \/ CodecRead

SpecCodec == InitCodec /\ [][NextCodec]_vars


\* -------------------------------------------- staged (reference) encoder
\* length of the zero-free run of src that starts at 1-based i, at most 254
RunLen(src, i) ==
  LET Stops == {k \in 0..253 : i + k > Len(src) \/ src[i + k] = 0}
  IN IF Stops = {} THEN 254 ELSE CHOOSE k \in Stops : \A j \in Stops : k <= j

\* byte stuffing of src[i..] with sentinel 0x00: each block is its overhead
\* byte (run length + 1) and its run; a run of 254 takes overhead 0xFF and
\* the byte behind it starts a new block; a zero ends a block
RECURSIVE RefCobs(_, _)
RefCobs(src, i) ==
  IF i > Len(src) THEN <<1>>
  ELSE LET k   == RunLen(src, i)
           blk == <<k + 1>> \o SubSeq(src, i, i + k - 1)
       IN IF k = 254
          THEN IF i + 254 > Len(src) THEN blk ELSE blk \o RefCobs(src, i + 254)
          ELSE IF i + k > Len(src) THEN blk
          ELSE blk \o RefCobs(src, i + k + 1)

\* [header][len_lo][len_hi][payload][crc32 le], stuffed, then the terminator
RefFrame(h, d) == RefCobs(((<<h>> \o len_bytes(d)) \o d) \o compute_crc32(d), 1) \o <<0>>

\* ------------------------------------------------------------ codec claims
CodecReturned == pc = "codec_done"

\* C1: frame round trip: what internal_send wrote, fed to internal_read,
\* gives back the payload length, the payload bytes and the header byte
C1_RoundTrip ==
  CodecReturned => rd = ReadResult("Ok", Len(data), header, data)

\* C2: the bytes one send writes hold exactly one 0x00, the last byte
C2_NoInteriorZero ==
  CodecReturned => /\ tx # <<>>
                   /\ tx[Len(tx)] = 0
                   /\ \A i \in 1..(Len(tx) - 1) : tx[i] # 0

\* C3: the streaming encoder writes what the staged encoder writes
C3_StreamEqualsStaged ==
  CodecReturned => tx = RefFrame(header, data)


\* ----------------------------------------------------------- serial connect
MaxResets == 2            \* RESET replies the peer gives to one connect
MaxClientResets == 1      \* the same, when connect runs inside new_client
SERIAL_CONNECT_THROTTLE_TIME_MS == 250

\* a connect that tests the RESET bit before the ACK and INIT bits
ClassifyResetFirst(h) ==
  IF And8(h, FLAG_RESET) = FLAG_RESET THEN "retry"
  ELSE IF And8(h, FLAG_ACK + FLAG_INIT) = FLAG_ACK + FLAG_INIT THEN "connected"
  ELSE "error"

\* connect, lines 389-401: what the header of the frame read leads to
Classify(h) ==
  IF And8(h, FLAG_ACK + FLAG_INIT) = FLAG_ACK + FLAG_INIT THEN "connected"
  ELSE IF And8(h, FLAG_RESET) = FLAG_RESET THEN "retry"
  ELSE "error"

\* a connect that also delays before it returns an error
ThrottleOnError(c) ==
  IF c # "connected" THEN <<Ev("delay", SERIAL_CONNECT_THROTTLE_TIME_MS, <<>>)>> ELSE <<>>

\* connect, lines 393-394: the delay is issued on the retry path only
Throttle(c) ==
  IF c = "retry" THEN <<Ev("delay", SERIAL_CONNECT_THROTTLE_TIME_MS, <<>>)>> ELSE <<>>

\* a new_client that goes on to the handshake whatever connect returned
ConnExitAlways(ok) ==
  IF prog = "connect" THEN (IF ok THEN "connected" ELSE "failed") ELSE "handshake"

\* link::open(ep)? in new_client: the handshake starts only when connect
\* returned Ok; connect called on its own just returns
ConnExit(ok) ==
  IF ~ok THEN "failed"
  ELSE IF prog = "connect" THEN "connected" ELSE "handshake"

\* a connect that gives up at the first RESET
ConnLoopOnce(c) == IF c = "retry" THEN "failed" ELSE ConnExit(c = "connected")

\* connect, the loop of lines 382-403: break, next iteration or return
ConnLoop(c) == IF c = "retry" THEN "connect" ELSE ConnExit(c = "connected")

NumEv(e) == Cardinality({i \in 1..Len(log) : log[i].ev = e})

\* what the peer may answer to INIT: a frame with any of these headers, a
\* frame with a payload, a frame with a wrong CRC, a run of COBS_BUF_SIZE
\* bytes without terminator
ConnHeaders == IF prog = "connect" THEN {0, 1, 2, 3, 4, 5, 6, 7, 8, 255} ELSE {0, 3, 4}
BadCrcFrame == RefCobs(<<3, 0, 0, 1, 1, 1, 1>>, 1) \o <<0>>
ConnFrames ==
  {RefFrame(h, <<>>) : h \in {g \in ConnHeaders :
        Classify(g) = "retry" =>
           NumEv("delay") < (IF prog = "connect" THEN MaxResets ELSE MaxClientResets)}}
  \cup (IF prog = "connect"
        THEN {RefFrame(3, <<7>>), BadCrcFrame, Fill(COBS_BUF_SIZE, 1)}
        ELSE {})

InitConnect ==
  /\ InitCommon
  /\ arg = <<>>
  /\ prog = "connect"
  /\ zid = ZenohID(<<73>>)
  /\ rng_draw = <<0, 0, 0, 0>>
  /\ pc = "connect"
  /\ header = 0
  /\ data = <<>>

\* the peer puts its answer on the line
ConnPeer ==
  /\ pc = "connect_read"
  /\ rx = <<>>
  /\ \E f \in ConnFrames : rx' = f
  /\ UNCHANGED << pc, ret, overflow_checks, encVars, tx, flushed, rd, log, ctxVars >>

\* connect, line 383: internal_send(flags::INIT, &[])
ConnSend ==
  /\ pc = "connect"
  /\ StartSend(FLAG_INIT, <<>>, "connect_read")
  /\ UNCHANGED << overflow_checks, tx, flushed, rx, rd, log, ctxVars >>

\* connect, lines 387-402: internal_read, then the header decides
ConnRead ==
  /\ pc = "connect_read"
  /\ rx # <<>>
  /\ CanRead(rx, COBS_BUF_SIZE)
  /\ \E r \in {internal_read(rx, COBS_BUF_SIZE)} :
     \E c \in {Classify(r.header)} :
        /\ rd' = r
        /\ rx' = SubSeq(rx, ReadCount(rx, COBS_BUF_SIZE) + 1, Len(rx))
        /\ IF r.status = "panic"
           THEN /\ pc' = "panic"
                /\ log' = log
                /\ conn_result' = conn_result
           ELSE IF r.status # "Ok"
           THEN /\ pc' = ConnExit(FALSE)
                /\ log' = Append(log, Ev("read_err", 0, <<>>))
                /\ conn_result' = r.status
           ELSE /\ pc' = ConnLoop(c)
                /\ log' = Append(log, Ev("read", r.header, r.buf)) \o Throttle(c)
                /\ conn_result' = IF c = "connected" THEN "Ok"
                                  ELSE IF c = "retry" THEN conn_result
                                  ELSE "IoError"
  /\ UNCHANGED << ret, overflow_checks, encVars, tx, flushed, prog, fnVars, hsVars >>

NextConnect ==
  ConnSend \/ EncHeader \/ EncLenLSB \/ EncLenMSB \/ EncData \/ EncCrc \/ ConnPeer \/ ConnRead

SpecConnect == InitConnect /\ [][NextConnect]_vars


\* ---------------------------------------------------------- connect claims
HasAckInit(h) == (h \div 2) % 2 = 1 /\ h % 2 = 1
HasReset(h) == (h \div 4) % 2 = 1
LastEv == log[Len(log)]
IsRead(e) == e.ev = "read"

\* C4: connect returns Ok exactly when the frame just read has ACK and INIT
\* set (RESET or not); it retries when they are not both set and RESET is;
\* it returns IoError for every other header, the (0, 0) of an over-long
\* frame included
C4_ConnectClassifies ==
  /\ conn_result = "Ok" => /\ rd.status = "Ok"
                           /\ HasAckInit(rd.header)
                           /\ log # <<>> /\ IsRead(LastEv) /\ LastEv.n = rd.header
  /\ (log # <<>> /\ IsRead(LastEv)) =>
        /\ HasAckInit(LastEv.n) => conn_result = "Ok" /\ pc = "connected"
        /\ ~HasAckInit(LastEv.n) => /\ ~HasReset(LastEv.n)
                                    /\ conn_result = "IoError"
                                    /\ pc = "failed"
  /\ (log # <<>> /\ LastEv.ev = "delay") =>
        /\ conn_result = "none"
        /\ Len(log) > 1
        /\ IsRead(log[Len(log) - 1])
        /\ HasReset(log[Len(log) - 1].n)
        /\ ~HasAckInit(log[Len(log) - 1].n)

C4_Witness ==
  /\ conn_result = "Ok"
  /\ HasReset(rd.header)
  /\ NumEv("delay") >= 1

\* the bytes of n INIT frames, one behind the other
InitFrames(n) ==
  LET f == RefFrame(FLAG_INIT, <<>>)
  IN [i \in 1..(n * Len(f)) |-> f[((i - 1) % Len(f)) + 1]]

\* C5: connect starts with the send of an INIT frame without payload; sends
\* and reads alternate; a reply that causes a retry is followed by one
\* 250 ms delay and then by a new INIT frame; there is no delay before
\* connect returns Ok or an error
C5_ConnectAlternates ==
  /\ log # <<>> => log[1].ev = "send"
  /\ \A i \in 1..Len(log) :
        /\ log[i].ev = "send" =>
              /\ log[i].n = FLAG_INIT /\ log[i].bytes = <<>>
              /\ i = 1 \/ log[i - 1].ev = "delay"
        /\ log[i].ev \in {"read", "read_err"} => i > 1 /\ log[i - 1].ev = "send"
        /\ log[i].ev = "delay" =>
              /\ log[i].n = 250
              /\ i > 1 /\ IsRead(log[i - 1])
              /\ HasReset(log[i - 1].n) /\ ~HasAckInit(log[i - 1].n)
        /\ (IsRead(log[i]) /\ HasReset(log[i].n) /\ ~HasAckInit(log[i].n)) =>
              i < Len(log) /\ log[i + 1].ev = "delay"
  /\ conn_result # "none" => log # <<>> /\ LastEv.ev \in {"read", "read_err"}
  /\ pc # "internal_send" => tx = InitFrames(NumEv("send"))

C5_Witness ==
  /\ conn_result = "Ok"
  /\ NumEv("delay") >= 2
  /\ NumEv("send") = NumEv("delay") + 1

\* ----------------------------------------------- new_client: the handshake
RngDraws == {<<120, 86, 52, 18>>, <<255, 255, 255, 255>>}
ZidChoices == {ZenohID(<<73>>), ZenohID(<<1, 0, 2>>), ZenohID(<<>>)}

\* the frame the peer writes for the message d; corrupt inverts the CRC
PeerFrame(d, corrupt) ==
  IF corrupt
  THEN RefCobs(((<<0>> \o len_bytes(d)) \o d) \o Not32(compute_crc32(d)), 1) \o <<0>>
  ELSE RefFrame(0, d)
Cut(b, n) == SubSeq(b, 1, Len(b) - n)

\* u8 << k
Shl8(v, k) == (v * Pow2(k)) % 256

\* a negotiation that takes whatever the INIT-ACK carries
NegotiateAny(offered, ack) == [ok |-> TRUE, value |-> ack]

\* handshake, lines 104-120: one size parameter; the value is what
\* params holds afterwards
Negotiate(offered, ack) ==
  IF offered >= ack THEN [ok |-> TRUE, value |-> ack] ELSE [ok |-> FALSE, value |-> offered]

\* a Box<P> that is forgotten instead of dropped
CookieLeak(free) == free

\* drop of the Box<P> holding the cookie: its slot returns to the pool
CookieDrop(free) == free + 1

\* an INIT-ACK cookie stored with its last byte inverted
CookieStoreFlipped(c) ==
  Cookie_from_slice([i \in 1..Len(c) |-> IF i = Len(c) THEN 255 - c[i] ELSE c[i]])

\* P.alloc(Cookie::from_slice(cookie))
CookieStore(c) == Cookie_from_slice(c)

\* a handshake that reads again when a read or a decode failed
HsExitRetry(accepted, next, here) == IF accepted THEN next ELSE here

\* handshake, the ? operators and the else branches of lines 87-100 and
\* 141-155: an error returns at once
HsExit(accepted, next, here) == IF accepted THEN next ELSE "failed"

\* a handshake that keeps the bits of the draw inside the window
InitialSnTxWindow(draw, bits) == And32(draw, sn_modulo_mask(bits))

\* handshake, line 126: the draw with the bits of the window cleared
InitialSnTx(draw, bits) == And32(draw, Not32(sn_modulo_mask(bits)))

\* a handshake that takes the message whatever its kind
IsKindAny(msg, kind) == msg.kind # "none"

\* handshake, lines 91-100 and 146-155: the if-let on the TransportBody
\* variant
IsKind(msg, kind) == msg.kind = kind

\* a handshake that keeps the lease it proposed
OpenAckParamsOwnLease(p, oam) == [p EXCEPT !.initial_sn_rx = oam.initial_sn]

\* handshake, lines 160-161: the OPEN-ACK completes params
OpenAckParams(p, oam) == [p EXCEPT !.lease = oam.lease, !.initial_sn_rx = oam.initial_sn]

Init ==
  /\ InitCommon
  /\ arg = <<>>
  /\ prog = "client"
  /\ pc = "connect"
  /\ header = 0
  /\ data = <<>>
  /\ zid \in ZidChoices
  /\ rng_draw \in RngDraws

\* handshake, lines 64-83: InitSyn::new, the offered parameters, encode
\* into cache, send_msg
HsStart ==
  /\ pc = "handshake"
  /\ \E ism \in {InitSyn_new(WAI_CLIENT, zid)} :
     \E enc \in {InitSyn_encode(ism, overflow_checks)} :
        /\ pool_free' = pool_free + 1
        /\ params' = [UnicastParams_default EXCEPT !.seq_num_res = ism.seq_num_res,
                                                   !.req_id_res = ism.req_id_res,
                                                   !.batch_size = ism.batch_size]
        /\ IF enc.status = "Ok"
           THEN /\ cache' = enc.bytes
                /\ result' = result
                /\ StartSend(0, enc.bytes, "hs_read_init")
           ELSE /\ cache' = cache
                /\ pc' = IF enc.status = "panic" THEN "panic" ELSE "failed"
                /\ result' = IF enc.status = "panic" THEN result ELSE enc.status
                /\ UNCHANGED << ret, encVars >>
  /\ UNCHANGED << overflow_checks, tx, flushed, rx, rd, log, prog, fnVars, conn_result, zid, rng_draw,
                  open_cache, slot, iam, peer_init, peer_open >>

\* the peer answers the INIT-SYN
HsPeerInit ==
  /\ pc = "hs_read_init"
  /\ rx = <<>>
  /\ \E r \in InitReplies :
        /\ rx' = PeerFrame(Cut(PeerInitBytes(r), r.cut), r.corrupt)
        /\ peer_init' = r
  /\ UNCHANGED << pc, ret, overflow_checks, encVars, tx, flushed, rd, log, prog, fnVars, conn_result,
                  zid, rng_draw, params, cache, open_cache, pool_free, slot, iam, result,
                  peer_open >>

\* handshake, lines 84-100: cache.clear, recv_msg into a slice of mtu bytes,
\* TransportMessage::decode, the message must be an INIT-ACK
HsRecvInit ==
  /\ pc = "hs_read_init"
  /\ rx # <<>>
  /\ CanRead(rx, LINK_MTU)
  /\ \E r \in {internal_read(rx, LINK_MTU)} :
     \E dec \in {TransportMessage_decode(r.buf, pool_free, overflow_checks)} :
     LET read     == r.status = "Ok"
         panicked == r.status = "panic" \/ (read /\ dec.status = "panic")
         accepted == read /\ dec.status = "Ok" /\ IsKind(dec.msg, "InitAck")
     IN /\ rd' = r
        /\ rx' = SubSeq(rx, ReadCount(rx, LINK_MTU) + 1, Len(rx))
        /\ log' = IF read THEN Append(log, Ev("read", r.header, r.buf))
                  ELSE IF r.status = "panic" THEN log
                  ELSE Append(log, Ev("read_err", 0, <<>>))
        /\ pc' = IF panicked THEN "panic" ELSE HsExit(accepted, "hs_negotiate", pc)
        /\ result' = IF panicked \/ accepted THEN result
                     ELSE IF ~read THEN "LinkError"
                     ELSE IF dec.status # "Ok" THEN dec.status
                     ELSE "UnexpectMsg"
        /\ iam' = IF accepted THEN [dec.msg EXCEPT !.cookie = <<>>] ELSE iam
        /\ slot' = IF accepted THEN CookieStore(dec.msg.cookie) ELSE slot
        /\ pool_free' = IF accepted THEN pool_free - 1 ELSE pool_free
        /\ cache' = IF accepted THEN r.buf ELSE IF panicked THEN cache ELSE <<>>
  /\ UNCHANGED << ret, overflow_checks, encVars, tx, flushed, prog, fnVars, conn_result, zid, rng_draw,
                  params, open_cache, peer_init, peer_open >>

\* handshake, lines 104-138: the negotiation, the widths, initial_sn_tx,
\* OpenSyn::encode into open_cache, send_msg.  The Box<P> taken out of
\* iam.cookie is a temporary of the encode statement and is dropped where
\* that statement ends, before send_msg; on an error return it is dropped
\* with iam
HsNegotiate ==
  /\ pc = "hs_negotiate"
  /\ \E sn \in {Negotiate(params.seq_num_res, iam.seq_num_res)} :
     \E rid \in {Negotiate(params.req_id_res, iam.req_id_res)} :
     \E bs \in {Negotiate(params.batch_size, iam.batch_size)} :
     \E isn \in {InitialSnTx(rng_draw, sn.value)} :
     \E enc \in {OpenSyn_encode(U32(Z_TRANSPORT_LEASE), isn, Cookie_as_slice(slot))} :
     LET ok == sn.ok /\ rid.ok /\ bs.ok
     IN /\ slot' = NoCookie
        /\ pool_free' = CookieDrop(pool_free)
        /\ iam' = [iam EXCEPT !.has_cookie = FALSE]
        /\ IF ~ok
           THEN /\ params' = [params EXCEPT
                                !.seq_num_res = sn.value,
                                !.req_id_res = IF sn.ok THEN rid.value ELSE @,
                                !.batch_size = IF sn.ok /\ rid.ok THEN bs.value ELSE @]
                /\ pc' = "failed"
                /\ result' = "OpenSnResolution"
                /\ UNCHANGED << ret, encVars, open_cache >>
           ELSE /\ params' = [params EXCEPT
                                !.seq_num_res = sn.value,
                                !.batch_size = bs.value,
                                !.key_id_res = Shl8(8, params.key_id_res),
                                !.req_id_res = Shl8(8, rid.value),
                                !.initial_sn_tx = isn,
                                !.zid = iam.zid]
                /\ IF enc.status = "Ok"
                   THEN /\ open_cache' = enc.bytes
                        /\ result' = result
                        /\ StartSend(0, enc.bytes, "hs_read_open")
                   ELSE /\ pc' = "failed"
                        /\ result' = enc.status
                        /\ UNCHANGED << ret, encVars, open_cache >>
  /\ UNCHANGED << overflow_checks, tx, flushed, rx, rd, log, prog, fnVars, conn_result, zid, rng_draw,
                  cache, peer_init, peer_open >>

\* the peer answers the OPEN-SYN
HsPeerOpen ==
  /\ pc = "hs_read_open"
  /\ rx = <<>>
  /\ \E r \in OpenReplies :
        /\ rx' = PeerFrame(PeerOpenBytes(r), r.corrupt)
        /\ peer_open' = r
  /\ UNCHANGED << pc, ret, overflow_checks, encVars, tx, flushed, rd, log, prog, fnVars, conn_result,
                  zid, rng_draw, params, cache, open_cache, pool_free, slot, iam, result,
                  peer_init >>

\* handshake, lines 139-163: open_cache.clear, recv_msg,
\* TransportMessage::decode, the message must be an OPEN-ACK; its lease and
\* initial_sn complete params.  A decoded INIT-ACK takes a cookie slot and
\* gives it back when the message is dropped
HsRecvOpen ==
  /\ pc = "hs_read_open"
  /\ rx # <<>>
  /\ CanRead(rx, LINK_MTU)
  /\ \E r \in {internal_read(rx, LINK_MTU)} :
     \E dec \in {TransportMessage_decode(r.buf, pool_free, overflow_checks)} :
     LET read     == r.status = "Ok"
         panicked == r.status = "panic" \/ (read /\ dec.status = "panic")
         accepted == read /\ dec.status = "Ok" /\ IsKind(dec.msg, "OpenAck")
     IN /\ rd' = r
        /\ rx' = SubSeq(rx, ReadCount(rx, LINK_MTU) + 1, Len(rx))
        /\ log' = IF read THEN Append(log, Ev("read", r.header, r.buf))
                  ELSE IF r.status = "panic" THEN log
                  ELSE Append(log, Ev("read_err", 0, <<>>))
        /\ pc' = IF panicked THEN "panic" ELSE HsExit(accepted, "established", pc)
        /\ result' = IF panicked THEN result
                     ELSE IF accepted THEN "Ok"
                     ELSE IF ~read THEN "LinkError"
                     ELSE IF dec.status # "Ok" THEN dec.status
                     ELSE "UnexpectMsg"
        /\ params' = IF accepted THEN OpenAckParams(params, dec.msg) ELSE params
        /\ pool_free' = IF read /\ dec.status = "Ok" /\ dec.alloc
                        THEN CookieDrop(pool_free - 1)
                        ELSE pool_free
        /\ open_cache' = IF panicked THEN open_cache ELSE <<>>
        /\ cache' = IF panicked THEN cache ELSE <<>>
  /\ UNCHANGED << ret, overflow_checks, encVars, tx, flushed, prog, fnVars, conn_result, zid, rng_draw,
                  slot, iam, peer_init, peer_open >>

Next ==
  \/ ConnSend \/ ConnPeer \/ ConnRead
  \/ EncHeader \/ EncLenLSB \/ EncLenMSB \/ EncData \/ EncCrc
  \/ HsStart \/ HsPeerInit \/ HsRecvInit \/ HsNegotiate \/ HsPeerOpen \/ HsRecvOpen

Spec == Init /\ [][Next]_vars


\* -------------------------------------------------------- handshake claims
IsConnSend(e) == e.ev = "send" /\ e.n = FLAG_INIT /\ e.bytes = <<>>
IsMsgSend(e, mid) ==
  /\ e.ev = "send" /\ e.n = 0 /\ e.bytes # <<>>
  /\ e.bytes[1] % 32 = mid
  /\ And8(e.bytes[1], FLAG_A) = 0
IsInitSyn(e) == IsMsgSend(e, Z_MID_T_INIT)
IsOpenSyn(e) == IsMsgSend(e, Z_MID_T_OPEN)
\* the kind a message decodes to, or the error of its decoding
DecodedKind(b) ==
  \* the pool has a free slot and the build wraps on overflow
  (LET d == TransportMessage_decode(b, 1, FALSE)
   IN [k |-> IF d.status = "Ok" THEN d.msg.kind ELSE d.status]).k
\* the INIT-ACK is within what the INIT-SYN offered
Fits(m) ==
  /\ m.seq_num_res <= Z_SN_RESOLUTION
  /\ m.req_id_res <= Z_REQ_RESOLUTION
  /\ m.batch_size <= Z_BATCH_UNICAST_SIZE
\* handshake has decoded an INIT-ACK and is past the negotiation
Negotiated == iam.kind = "InitAck" /\ pc # "hs_negotiate"
\* handshake has handed an OPEN-SYN to the link
OpenSynStarted == ret = "hs_read_open"

\* C6: the sends of new_client are, in this order, the INIT frames of
\* connect, one INIT-SYN and one OPEN-SYN.  INIT-SYN follows directly the
\* read of the ACK|INIT frame that ends connect; OPEN-SYN follows directly
\* the read of a message that decodes as an INIT-ACK within the offer, which
\* itself follows INIT-SYN; nothing is sent after OPEN-SYN; a successful
\* handshake ends with the read of a message that decodes as an OPEN-ACK
C6_HandshakeOrder ==
  /\ \A i \in 1..Len(log) :
        /\ log[i].ev = "send" =>
              IsConnSend(log[i]) \/ IsInitSyn(log[i]) \/ IsOpenSyn(log[i])
        /\ IsInitSyn(log[i]) =>
              /\ i > 1 /\ IsRead(log[i - 1]) /\ HasAckInit(log[i - 1].n)
              /\ \A j \in 1..(i - 1) : log[j].ev = "send" => IsConnSend(log[j])
              /\ \A j \in (i + 1)..Len(log) : ~IsInitSyn(log[j]) /\ ~IsConnSend(log[j])
        /\ IsOpenSyn(log[i]) =>
              /\ i > 2 /\ IsInitSyn(log[i - 2])
              /\ IsRead(log[i - 1]) /\ DecodedKind(log[i - 1].bytes) = "InitAck"
              /\ \A j \in (i + 1)..Len(log) : log[j].ev # "send"
  /\ (pc = "internal_send" /\ ret = "hs_read_init") =>
        /\ conn_result = "Ok"
        /\ log # <<>> /\ IsRead(LastEv) /\ HasAckInit(LastEv.n)
        /\ \A j \in 1..Len(log) : ~IsInitSyn(log[j])
  /\ (pc = "internal_send" /\ OpenSynStarted) =>
        /\ Len(log) > 1 /\ IsInitSyn(log[Len(log) - 1])
        /\ IsRead(LastEv) /\ DecodedKind(LastEv.bytes) = "InitAck"
        /\ Fits(iam)
  /\ result = "Ok" =>
        /\ Len(log) >= 6
        /\ IsConnSend(log[Len(log) - 5])
        /\ IsRead(log[Len(log) - 4]) /\ HasAckInit(log[Len(log) - 4].n)
        /\ IsInitSyn(log[Len(log) - 3])
        /\ IsRead(log[Len(log) - 2]) /\ DecodedKind(log[Len(log) - 2].bytes) = "InitAck"
        /\ IsOpenSyn(log[Len(log) - 1])
        /\ IsRead(LastEv) /\ DecodedKind(LastEv.bytes) = "OpenAck"

C6_Witness ==
  /\ pc = "established"
  /\ result = "Ok"
  /\ NumEv("delay") = 1
  /\ Len(log) = 9

\* C7: past the negotiation, when every size parameter of the INIT-ACK is at
\* most the one offered, params holds the INIT-ACK's seq_num_res and
\* batch_size and the width 8 << req_id_res of the INIT-ACK's req_id_res;
\* when one of them is larger the handshake has failed with
\* OpenSnResolution and no OPEN-SYN is sent.  Returned params have
\* batch_size <= 2048 and seq_num_res <= 0b10
C7_Negotiation ==
  /\ Negotiated =>
        /\ Fits(iam) =>
              /\ params.seq_num_res = iam.seq_num_res
              /\ params.req_id_res = 8 * Pow2(iam.req_id_res)
              /\ params.batch_size = iam.batch_size
              /\ result # "OpenSnResolution"
              /\ OpenSynStarted
        /\ ~Fits(iam) =>
              /\ result = "OpenSnResolution"
              /\ pc = "failed"
              /\ ~OpenSynStarted
              /\ \A i \in 1..Len(log) : ~IsOpenSyn(log[i])
        /\ And8(peer_init.hdr, FLAG_S) = FLAG_S =>
              /\ iam.seq_num_res = peer_init.sn
              /\ iam.req_id_res = peer_init.rid
              /\ iam.batch_size = peer_init.batch
  /\ result = "Ok" =>
        /\ params.batch_size <= Z_BATCH_UNICAST_SIZE
        /\ params.seq_num_res <= Z_SN_RESOLUTION

C7_Witness ==
  /\ result = "Ok"
  /\ peer_init.sn = 1 /\ peer_init.rid = 1 /\ peer_init.batch = 1
  /\ params.seq_num_res = 1 /\ params.req_id_res = 16 /\ params.batch_size = 1

\* the cookie field at the end of an OPEN-SYN
CookieField(c) == VarintEnc(AsU64(U32(Len(c)))) \o c
LastBytes(b, n) == SubSeq(b, Len(b) - n + 1, Len(b))

\* C8: every INIT-ACK that is decoded and within the offer leads to an
\* OPEN-SYN; the message handed to the link is an OPEN-SYN that ends with
\* the varint length and the bytes of the cookie the peer put in the
\* INIT-ACK, and it decodes to that cookie
C8_CookieEcho ==
  /\ (Negotiated /\ Fits(iam)) => OpenSynStarted
  /\ OpenSynStarted =>
        /\ header = 0
        /\ DecodedKind(data) = "OpenSyn"
        /\ Len(data) > Len(CookieField(peer_init.cookie))
        /\ LastBytes(data, Len(CookieField(peer_init.cookie))) = CookieField(peer_init.cookie)
        /\ TransportMessage_decode(data, 1, FALSE).msg.cookie = peer_init.cookie
        /\ \A i \in 1..Len(log) : IsOpenSyn(log[i]) => log[i].bytes = data

C8_Witness ==
  /\ OpenSynStarted
  /\ pc = "hs_read_open"
  /\ Len(peer_init.cookie) = COOKIE_CAP
  /\ IsOpenSyn(LastEv)

\* C9: once the INIT-ACK 21 09 02 49 04 CA FE F0 0D has been read, the
\* client has handed to the link an OPEN-SYN with the cookie CA FE F0 0D
C9_PlainInitAccepted ==
  (peer_init = PlainInit /\ pc \notin {"hs_read_init", "hs_negotiate"}) =>
     /\ result \in {"none", "Ok"} \/ peer_open # NoPeerOpen
     /\ OpenSynStarted
     /\ LastBytes(data, 5) = <<4, 202, 254, 240, 13>>

\* C10 as stated: while the OPEN-SYN is being sent and while the OPEN-ACK is
\* awaited, the slot of the INIT-ACK cookie is still allocated
C10_HeldUntilOpenAck ==
  (OpenSynStarted /\ pc \in {"internal_send", "hs_read_open"}) =>
     pool_free = 0 /\ slot # NoCookie

\* C10: the slot holds the INIT-ACK cookie from the decoding of the INIT-ACK
\* until the OPEN-SYN has been encoded; it is free again when the OPEN-SYN
\* is handed to the link, and when the handshake fails in the negotiation
C10_HeldUntilEncoded ==
  /\ pc = "hs_negotiate" =>
        /\ pool_free = 0
        /\ slot = Cookie_from_slice(peer_init.cookie)
        /\ ~OpenSynStarted
  /\ OpenSynStarted => pool_free = 1 /\ slot = NoCookie
  /\ result = "OpenSnResolution" => pool_free = 1 /\ slot = NoCookie

C10_Witness ==
  /\ OpenSynStarted
  /\ pc = "hs_read_open"
  /\ peer_open = NoPeerOpen
  /\ pool_free = 1

\* the message of the last read, as TransportMessage::decode returns it
LastDecoded == TransportMessage_decode(LastEv.bytes, 1, overflow_checks).msg

\* C11: when handshake has returned Ok, params.lease is the lease of the
\* OPEN-ACK just decoded (the wire value when T is clear, the wire value
\* times 1000 when T is set), params.initial_sn_rx its initial_sn, and
\* params.zid the zid the peer put in the INIT-ACK
C11_ParamsFromAcks ==
  result = "Ok" =>
     /\ IsRead(LastEv)
     /\ LastDecoded.kind = "OpenAck"
     /\ params.lease = LastDecoded.lease
     /\ params.initial_sn_rx = LastDecoded.initial_sn
     /\ params.initial_sn_rx = peer_open.isn
     /\ And8(peer_open.hdr, FLAG_T) = 0 => params.lease = peer_open.lease
     /\ (And8(peer_open.hdr, FLAG_T) = FLAG_T /\ ~Mul1000(peer_open.lease).overflow) =>
           params.lease = Mul1000(peer_open.lease).value
     /\ params.zid = ZenohID(peer_init.zid)

C11_Witness ==
  /\ result = "Ok"
  /\ params.lease = U32(2500)
  /\ params.lease # U32(Z_TRANSPORT_LEASE)
  /\ params.initial_sn_rx = <<255, 255, 255, 255>>
  /\ params.zid = [i \in 1..ZID_MAX_SIZE |-> i]

Kinds == {"InitSyn", "InitAck", "OpenSyn", "OpenAck"}

\* C12: a message read where the INIT-ACK (the OPEN-ACK) is expected that
\* decodes to another kind, or whose message id is not INIT or OPEN, ends
\* the handshake with UnexpectMsg: it is the last event and no params are
\* returned; and UnexpectMsg is returned for such messages only
C12_UnexpectedMessage ==
  /\ \A i \in 2..Len(log) :
        (IsRead(log[i]) /\ (IsInitSyn(log[i - 1]) \/ IsOpenSyn(log[i - 1]))) =>
           \E k \in {DecodedKind(log[i].bytes)} :
           \E expected \in {IF IsInitSyn(log[i - 1]) THEN "InitAck" ELSE "OpenAck"} :
              /\ k \in (Kinds \cup {"UnexpectMsg"}) \ {expected} =>
                    /\ result = "UnexpectMsg"
                    /\ pc = "failed"
                    /\ i = Len(log)
              /\ (i = Len(log) /\ result = "UnexpectMsg") =>
                    k \in (Kinds \cup {"UnexpectMsg"}) \ {expected}
  /\ result = "UnexpectMsg" =>
        /\ pc = "failed"
        /\ Len(log) >= 2 /\ IsRead(LastEv)
        /\ IsInitSyn(log[Len(log) - 1]) \/ IsOpenSyn(log[Len(log) - 1])
  /\ (peer_init.hdr % 32 \in ReservedIds /\ pc # "hs_read_init") => result = "UnexpectMsg"
  /\ (peer_open.hdr % 32 \in ReservedIds /\ pc # "hs_read_open") => result = "UnexpectMsg"

C12_Witness ==
  /\ result = "UnexpectMsg"
  /\ pc = "failed"
  /\ peer_open.hdr = Z_MID_T_OPEN + FLAG_T
  /\ DecodedKind(LastEv.bytes) = "OpenSyn"


\* --------------------------------------------- recv on what the wire holds
MaxRaw == 4     \* streams over RawAlphabet are enumerated up to this length
MaxBuf == 12    \* recv is called with buffers of 1..MaxBuf bytes
MaxCalls == 2   \* calls of recv on one stream

\* the terminator, the overhead byte of an empty block, two more overheads
RawAlphabet == {0, 1, 2, 3}
RawStreams == UNION {[1..n -> RawAlphabet] : n \in 0..MaxRaw}

\* the bytes of a frame before stuffing: header, advertised length n,
\* payload p, trailer c
WireFrame(h, n, p, c) == (<<h, n % 256, n \div 256>> \o p) \o c

\* what a peer puts on the wire for the un-stuffed bytes u
Stuffed(u) == RefCobs(u, 1) \o <<0>>

\* CRC32 of <<63>> is B0 C2 64 64, CRC32 of <<34, 79>> is DE 08 08 00
FramePayloads == {<<>>, <<7>>, <<63>>, <<0, 9>>, <<34, 79>>}
FrameHeaders == {0, 3}

\* frames of a peer that keeps the format, and of one that does not: a
\* flipped CRC bit, an advertised length that is too large or too small,
\* one or two bytes missing at the end, one byte too many
FramesOf(h, p, c) ==
  {WireFrame(h, Len(p), p, c),
   WireFrame(h, Len(p), p, [c EXCEPT ![4] = Xor8(c[4], 128)]),
   WireFrame(h, Len(p) + 1, p, c),
   WireFrame(h, Len(p) + 2, p, c),
   WireFrame(h, Len(p) + 3, p, c),
   WireFrame(h, Len(p), p, SubSeq(c, 1, 3)),
   WireFrame(h, Len(p), p, SubSeq(c, 1, 2)),
   WireFrame(h, Len(p), p, c \o <<5>>)}
  \cup (IF p = <<>> THEN {} ELSE {WireFrame(h, Len(p) - 1, p, c)})

WireFrames == UNION {FramesOf(h, p, compute_crc32(p)) : h \in FrameHeaders, p \in FramePayloads}

RecvStreams == RawStreams \cup {Stuffed(u) : u \in WireFrames}
RecvBufLens == 1..MaxBuf \cup {COBS_BUF_SIZE}

InitRecv ==
  /\ InitCommon
  /\ arg = <<>>
  /\ prog = "recv"
  /\ zid = ZenohID(<<73>>)
  /\ rng_draw = <<0, 0, 0, 0>>
  /\ header = 0
  /\ data = <<>>
  /\ pc = "recv_wire"

\* the peer writes a stream to the wire
RecvWire ==
  /\ pc = "recv_wire"
  /\ rx' \in RecvStreams
  /\ pc' = "recv_call"
  /\ UNCHANGED << ret, overflow_checks, encVars, tx, flushed, rd, log, ctxVars >>

\* recv(buf) with buf.len() = buflen: the reader delivers every byte asked
\* for
Recv ==
  /\ pc = "recv_call"
  /\ Len(log) < MaxCalls
  /\ \E buflen \in RecvBufLens :
     \E n \in {ReadCount(rx, buflen)} :
        /\ n <= Len(rx)
        /\ \E r \in {internal_read(rx, buflen)} :
              /\ rd' = r
              /\ pc' = IF r.status = "panic" THEN "recv_panic" ELSE "recv_call"
        /\ rx' = SubSeq(rx, n + 1, Len(rx))
        /\ log' = Append(log, Ev("recv", buflen, SubSeq(rx, 1, n)))
  /\ UNCHANGED << ret, overflow_checks, encVars, tx, flushed, ctxVars >>

\* recv(buf) when the reader runs dry inside the loop: read_exact fails
RecvIoError ==
  /\ pc = "recv_call"
  /\ Len(log) < MaxCalls
  /\ \E buflen \in RecvBufLens :
        /\ ~CanRead(rx, buflen)
        /\ log' = Append(log, Ev("recv", buflen, rx))
  /\ rd' = ReadResult("IoError", 0, 0, <<>>)
  /\ rx' = <<>>
  /\ pc' = "recv_call"
  /\ UNCHANGED << ret, overflow_checks, encVars, tx, flushed, ctxVars >>

NextRecv == RecvWire \/ Recv \/ RecvIoError

SpecRecv == InitRecv /\ [][NextRecv]_vars


\* the bytes the last call of recv took from the reader, and its buffer
Taken == LastEv.bytes
BufLen == LastEv.n
Terminated == Taken # <<>> /\ Taken[Len(Taken)] = 0

\* the bytes that un-stuffing the last frame produced
Unstuffed == SubSeq(decode_in_place_with_sentinel(Taken).buf, 1,
                    decode_in_place_with_sentinel(Taken).n)
Decodable == Terminated /\ decode_in_place_with_sentinel(Taken).ok

\* the length the un-stuffed bytes advertise
AdvertisedLen == Unstuffed[2] + 256 * Unstuffed[3]

\* C13: a frame whose un-stuffed bytes hold header, length, that many
\* payload bytes and four more gives CrcError when these four differ from
\* the CRC32 of the payload, and recv returns Ok with a length only for a
\* frame that holds them and whose four bytes are the CRC32 of its payload
C13_CrcGate ==
  (log # <<>> /\ Decodable /\ Len(Unstuffed) >= 3) =>
     \E u \in {Unstuffed} : \E ws \in {AdvertisedLen} :
        /\ (ws + 7 <= Len(u) /\ Slice(u, 3 + ws, 7 + ws) # compute_crc32(Slice(u, 3, 3 + ws)))
              => rd.status = "CrcError"
        /\ rd.status = "Ok" =>
              /\ rd.size = ws
              /\ ws + 7 <= Len(u)
              /\ Slice(u, 3 + ws, 7 + ws) = compute_crc32(Slice(u, 3, 3 + ws))

\* C14: a frame whose un-stuffed bytes are fewer than 1 + 2 + advertised
\* length + 4 (or too few to advertise a length) gives DecodeError
C14_LengthFits ==
  (log # <<>> /\ Decodable) =>
     \E u \in {Unstuffed} :
        (Len(u) < 3 \/ AdvertisedLen + 7 > Len(u)) => rd.status = "DecodeError"

\* C15: recv takes bytes up to and including the first 0x00 and never more
\* than buf.len(); buf.len() bytes without 0x00 give (0, 0); a terminated
\* frame is decoded, also when the terminator is byte buf.len()
C15_ReadLoop ==
  log # <<>> =>
     /\ Len(Taken) <= BufLen
     /\ \A i \in 1..(Len(Taken) - 1) : Taken[i] # 0
     /\ rd.status = "IoError" <=> (~Terminated /\ Len(Taken) < BufLen)
     /\ (~Terminated /\ Len(Taken) = BufLen) => rd = ReadResult("Ok", 0, 0, <<>>)
     /\ Terminated => rd = deserialize_from(Taken)

C15_Witness ==
  /\ log # <<>>
  /\ Terminated
  /\ Len(Taken) = BufLen
  /\ rd.status = "Ok"
  /\ rd.size = 2

\* C16: recv returns a length or an error whatever the reader delivers
C16_NoPanic == rd.status # "panic"


\* ------------------------------------- initial_sn_tx, draw by selector
DrawBytes == {0, 1, 127, 128, 255}
SnDraws == [1..4 -> DrawBytes]
SnSelectors == {0, 1, 2, 3}

InitSn ==
  /\ InitCommon
  /\ arg = <<>>
  /\ prog = "sn"
  /\ zid = ZenohID(<<73>>)
  /\ header = 0
  /\ data = <<>>
  /\ rng_draw \in SnDraws
  /\ pc = "sn_select"

\* lines 104-108: params.seq_num_res becomes a selector
SnSelect ==
  /\ pc = "sn_select"
  /\ \E r \in SnSelectors : params' = [params EXCEPT !.seq_num_res = r]
  /\ pc' = "sn_mask"
  /\ UNCHANGED << ret, overflow_checks, encVars, tx, flushed, rx, rd, log, prog, fnVars, conn_result,
                  zid, rng_draw, cache, open_cache, pool_free, slot, iam, result,
                  peer_init, peer_open >>

\* lines 125-126
SnMask ==
  /\ pc = "sn_mask"
  /\ params' = [params EXCEPT !.initial_sn_tx = InitialSnTx(rng_draw, params.seq_num_res)]
  /\ pc' = "sn_done"
  /\ UNCHANGED << ret, overflow_checks, encVars, tx, flushed, rx, rd, log, prog, fnVars, conn_result,
                  zid, rng_draw, cache, open_cache, pool_free, slot, iam, result,
                  peer_init, peer_open >>

NextSn == SnSelect \/ SnMask

SpecSn == InitSn /\ [][NextSn]_vars

\* C17: sn_modulo_mask gives 0x7F, 0x3FFF, 0x0FFFFFFF and 0xFFFFFFFF for the
\* selectors 0..3, and no bit of the mask of the selector is set in the
\* initial_sn_tx that lines 125-126 store, whatever the draw
C17_MaskedBitsClear ==
  /\ sn_modulo_mask(0) = U32(127)
  /\ sn_modulo_mask(1) = U32(16383)
  /\ sn_modulo_mask(2) = U32(268435455)
  /\ sn_modulo_mask(3) = <<255, 255, 255, 255>>
  /\ pc = "sn_done" =>
        /\ \A i \in 0..31 :
              Bit(sn_modulo_mask(params.seq_num_res), i) = 1 => Bit(params.initial_sn_tx, i) = 0
        /\ \A i \in 0..31 :
              Bit(sn_modulo_mask(params.seq_num_res), i) = 0 =>
                 Bit(params.initial_sn_tx, i) = Bit(rng_draw, i)

C17_Witness ==
  /\ pc = "sn_done"
  /\ params.seq_num_res = 1
  /\ rng_draw = <<255, 255, 255, 255>>
  /\ params.initial_sn_tx = <<0, 192, 255, 255>>

\* a <= b for little-endian u32
LeU32(a, b) ==
  LET D == {i \in 1..4 : a[i] # b[i]}
  IN D = {} \/ \E i \in D : (\A j \in D : j <= i) /\ a[i] < b[i]

\* C18: once handshake has handed its OPEN-SYN to the link, initial_sn_tx
\* is at most sn_modulo_mask of the negotiated selector
C18_FitsWindow ==
  OpenSynStarted => LeU32(params.initial_sn_tx, sn_modulo_mask(params.seq_num_res))


\* ---------------------------------------------- varint, value by value
U64_SIZE == 8

\* 2^k and 2^k - 1 as u64
OneBit(k) == [i \in 1..U64_SIZE |-> IF k \div 8 = i - 1 THEN Pow2(k % 8) ELSE 0]
LowBits(k) ==
  [i \in 1..U64_SIZE |-> IF 8 * i <= k THEN 255
                         ELSE IF 8 * (i - 1) < k THEN Pow2(k - 8 * (i - 1)) - 1
                         ELSE 0]

VarintValues ==
  {OneBit(k) : k \in 0..(8 * U64_SIZE - 1)} \cup {LowBits(k) : k \in 0..(8 * U64_SIZE)}
    \cup {AsU64(U32(Z_TRANSPORT_LEASE)), AsU64(<<120, 86, 52, 18, 240, 222, 188, 154>>)}

InitVarint ==
  /\ InitCommon
  /\ prog = "varint"
  /\ zid = ZenohID(<<73>>)
  /\ rng_draw = <<0, 0, 0, 0>>
  /\ header = 0
  /\ data = <<>>
  /\ arg \in VarintValues
  /\ pc = "vi_encode"

\* Varint::<u64>::encode(writer, arg)
VarintEncode ==
  /\ pc = "vi_encode"
  /\ out' = [NoOut EXCEPT !.bytes = VarintEnc(arg)]
  /\ pc' = "vi_decode"
  /\ UNCHANGED << ret, overflow_checks, encVars, tx, flushed, rx, rd, log, prog, conn_result,
                  hsVars, arg >>

\* Varint::<u64>::decode(reader) on the bytes written
VarintDecode ==
  /\ pc = "vi_decode"
  /\ \E d \in {VarintDec(out.bytes, 0, U64_SIZE)} :
        out' = [out EXCEPT !.status = IF d.ok THEN "Ok" ELSE "DecodeError",
                           !.value = d.value,
                           !.n = d.n]
  /\ pc' = "vi_done"
  /\ UNCHANGED << ret, overflow_checks, encVars, tx, flushed, rx, rd, log, prog, conn_result,
                  hsVars, arg >>

NextVarint == VarintEncode \/ VarintDecode

SpecVarint == InitVarint /\ [][NextVarint]_vars

\* C19: the varint of a u64 has max(1, ceil(bit_length / 7)) bytes, the
\* high bit set on all of them but the last, and decoding it as u64 takes
\* all of them and gives the value back
C19_VarintRoundTrip ==
  /\ pc \in {"vi_decode", "vi_done"} =>
        /\ Len(out.bytes) = (IF BitLen(arg) = 0 THEN 1 ELSE (BitLen(arg) + 6) \div 7)
        /\ \A i \in 1..Len(out.bytes) : out.bytes[i] >= 128 <=> i < Len(out.bytes)
  /\ pc = "vi_done" =>
        /\ out.status = "Ok"
        /\ out.n = Len(out.bytes)
        /\ out.value = arg


\* ------------------------------------ handshake messages, one by one
MsgZids == {ZenohID(<<73>>), ZenohID(<<1, 0, 2>>), [i \in 1..ZID_MAX_SIZE |-> i],
            [i \in 1..ZID_MAX_SIZE |-> IF i = ZID_MAX_SIZE THEN 200 ELSE 0], ZenohID(<<>>)}
MsgRoles == {0, 1, WAI_CLIENT}
MsgBatches == {0, Z_BATCH_UNICAST_SIZE, Z_DEFAULT_MULTICAST_BATCH_SIZE, 65535}
MsgLeases == {U32(0), U32(2500), U32(Z_TRANSPORT_LEASE), <<216, 254, 255, 255>>,
              <<255, 255, 255, 255>>}
MsgSns == {U32(0), <<0, 0, 0, 16>>, <<255, 255, 255, 255>>}
MsgCookieLens == {0, 1, 130, COOKIE_CAP}

InitSyns ==
  {InitMsg("InitSyn", Z_PROTO_VERSION, w, z, sn, rid, b, FALSE, <<>>) :
     w \in MsgRoles, z \in MsgZids, sn \in SnSelectors, rid \in SnSelectors, b \in MsgBatches}
OpenSyns ==
  {OpenMsg("OpenSyn", l, sn, TRUE, PeerCookie(n)) :
     l \in MsgLeases, sn \in MsgSns, n \in MsgCookieLens}
    \cup {OpenMsg("OpenSyn", l, sn, FALSE, <<>>) : l \in MsgLeases, sn \in MsgSns}

InitMsgs ==
  /\ InitCommon
  /\ prog = "msg"
  /\ zid = ZenohID(<<73>>)
  /\ rng_draw = <<0, 0, 0, 0>>
  /\ header = 0
  /\ data = <<>>
  /\ arg \in InitSyns \cup OpenSyns
  /\ pc = "msg_encode"

\* encode(&mut writer) of the message
MsgEncode ==
  /\ pc = "msg_encode"
  /\ \E enc \in {IF arg.kind = "InitSyn"
                 THEN InitSyn_encode(arg, overflow_checks)
                 ELSE OpenSyn_encode_opt(arg.lease, arg.initial_sn, arg.has_cookie, arg.cookie)} :
        /\ out' = [NoOut EXCEPT !.bytes = enc.bytes, !.status = enc.status]
        /\ pc' = IF enc.status = "Ok" THEN "msg_decode" ELSE "msg_done"
  /\ UNCHANGED << ret, overflow_checks, encVars, tx, flushed, rx, rd, log, prog, conn_result,
                  hsVars, arg >>

\* TransportMessage::decode of the bytes written
MsgDecode ==
  /\ pc = "msg_decode"
  /\ \E dec \in {TransportMessage_decode(out.bytes, pool_free, overflow_checks)} :
        out' = [out EXCEPT !.status = dec.status, !.value = dec.msg]
  /\ pc' = "msg_done"
  /\ UNCHANGED << ret, overflow_checks, encVars, tx, flushed, rx, rd, log, prog, conn_result,
                  hsVars, arg >>

NextMsgs == MsgEncode \/ MsgDecode

SpecMsgs == InitMsgs /\ [][NextMsgs]_vars

\* C20: encoding an INIT-SYN or an OPEN-SYN and decoding the bytes gives Ok
\* and a message of the same kind whose fields equal those of the original
C20_MessageRoundTrip ==
  pc = "msg_done" =>
     /\ out.status = "Ok"
     /\ out.value.kind = arg.kind
     /\ out.value = arg


\* number of zero bytes at the end of the little-endian form of z
TrailingZeroBytes(z) == Cardinality({i \in 1..ZID_MAX_SIZE : \A j \in i..ZID_MAX_SIZE : z[j] = 0})

\* what is larger of 1 and 16 - trailing zero bytes
SignificantLen(z) ==
  IF TrailingZeroBytes(z) = ZID_MAX_SIZE THEN 1 ELSE ZID_MAX_SIZE - TrailingZeroBytes(z)

\* C21: once an INIT-SYN is encoded, ZenohID::size of its identifier is
\* max(1, 16 - trailing zero bytes), the encoding succeeded, the high nibble
\* of the flags byte is size - 1 and exactly size identifier bytes follow
\* it; decoding gives the same 16-byte identifier
C21_ZidSize ==
  (arg # <<>> /\ arg.kind = "InitSyn" /\ pc # "msg_encode") =>
     /\ ZidSize(arg.zid) = SignificantLen(arg.zid)
     /\ ZidSize(arg.zid) \in 1..ZID_MAX_SIZE
     /\ out.bytes # <<>>
     /\ out.bytes[3] \div 16 = SignificantLen(arg.zid) - 1
     /\ Len(out.bytes) = 3 + SignificantLen(arg.zid)
                           + (IF And8(out.bytes[1], FLAG_S) = FLAG_S THEN 3 ELSE 0)
     /\ SubSeq(out.bytes, 4, 3 + SignificantLen(arg.zid))
           = SubSeq(arg.zid, 1, SignificantLen(arg.zid))
     /\ pc = "msg_done" => (out.status = "Ok" /\ out.value.zid = arg.zid)


\* C22: when the peer's INIT-ACK carries a version other than 0x09,
\* handshake sends no OPEN-SYN and does not return Ok
C22_VersionChecked ==
  (peer_init # NoPeerInit /\ peer_init.version # Z_PROTO_VERSION) =>
     /\ result # "Ok"
     /\ ~OpenSynStarted
     /\ \A i \in 1..Len(log) : ~IsOpenSyn(log[i])


\* C23: once an INIT message whose role bits are 0b11 has been read,
\* handshake has failed with an error value
C23_ReservedRole ==
  (peer_init # NoPeerInit /\ peer_init.whatami = 3 /\ pc # "hs_read_init") =>
     /\ pc = "failed"
     /\ result \notin {"none", "Ok"}


\* C24: once a message with the Z flag has been read, as answer to INIT-SYN
\* or to OPEN-SYN, handshake has failed with an error value, nothing was
\* sent after the read and the cookie slot is free
C24_ExtensionsRefused ==
  /\ (peer_init # NoPeerInit /\ And8(peer_init.hdr, FLAG_Z) = FLAG_Z /\ pc # "hs_read_init") =>
        /\ pc = "failed"
        /\ result \notin {"none", "Ok"}
        /\ IsRead(LastEv)
        /\ pool_free = 1
  /\ (peer_open # NoPeerOpen /\ And8(peer_open.hdr, FLAG_Z) = FLAG_Z /\ pc # "hs_read_open") =>
        /\ pc = "failed"
        /\ result \notin {"none", "Ok"}
        /\ IsRead(LastEv)
        /\ pool_free = 1


\* the writer has been flushed in this step
Flushes == flushed' # flushed
\* a send has returned Ok in this step
SendReturns == Len(log') = Len(log) + 1 /\ log'[Len(log')].ev = "send"

\* C25: the writer only ever gets bytes appended, and only inside
\* internal_send; send returns Ok exactly in the step that flushes; at the
\* flush everything written is committed, the last byte written is 0x00
\* and it is the only 0x00 written since the previous flush
C25_FlushOrder ==
  [][/\ Len(tx') >= Len(tx)
     /\ SubSeq(tx', 1, Len(tx)) = tx
     /\ pc # "internal_send" => tx' = tx
     /\ Flushes <=> SendReturns
     /\ Flushes =>
           /\ flushed = Len(tx) \/ pc = "internal_send"
           /\ flushed' = Len(tx')
           /\ pc' = ret
           /\ tx'[Len(tx')] = 0
           /\ \A i \in (flushed + 1)..(Len(tx') - 1) : tx'[i] # 0]_vars

C25_Witness ==
  /\ NumEv("send") >= 3
  /\ pc # "internal_send"
  /\ flushed = Len(tx)
  /\ tx[Len(tx)] = 0


\* C26: no step is taken once handshake has returned; the step in which
\* it returns an error leaves it failed, writes nothing and adds at most
\* the read that failed to the log; once connect has returned nothing
\* delays; a failed connect inside new_client is final as well
C26_NoRetry ==
  [][/\ result = "none"
     /\ pc # "failed"
     /\ result' \notin {"none", "Ok"} =>
           /\ pc' = "failed"
           /\ tx' = tx
           /\ log' = log \/ (Len(log') = Len(log) + 1 /\ LastEv' .ev \in {"read", "read_err"})
     /\ conn_result = "Ok" =>
           \A i \in (Len(log) + 1)..Len(log') : log'[i].ev # "delay"]_vars

C26_Witness ==
  /\ pc = "failed"
  /\ result = "LinkError"
  /\ peer_init.corrupt
  /\ rd.status = "CrcError"
  /\ LastEv.ev = "read_err"


\* the bytes internal_send stuffs: header, length, payload, CRC
FrameSource == ((<<header>> \o len_bytes(data)) \o data) \o crc_bytes

\* 1-based starts of the runs of FrameSource that begin the frame or follow
\* a zero and reach 254 bytes, all runs before them being shorter
LongRunStarts ==
  {i \in 1..Len(FrameSource) :
     /\ i = 1 \/ FrameSource[i - 1] = 0
     /\ RunLen(FrameSource, i) = 254
     /\ \A j \in 1..(i - 1) : (j = 1 \/ FrameSource[j - 1] = 0) => RunLen(FrameSource, j) < 254}

\* C27: when send has returned, a run of 254 non-zero source bytes that
\* starts at source byte i is written as 0xFF and these 254 bytes; the
\* source byte behind them opens a new block, whose overhead counts it and
\* the non-zero bytes after it (overhead 1 when it is zero), and when there
\* is no byte behind them the terminator follows
C27_LongRun ==
  CodecReturned =>
     \A i \in LongRunStarts :
        /\ Len(tx) >= i + 255
        /\ tx[i] = 255
        /\ SubSeq(tx, i + 1, i + 254) = SubSeq(FrameSource, i, i + 253)
        /\ IF i + 254 > Len(FrameSource)
           THEN tx[i + 255] = 0
           ELSE \E k \in {RunLen(FrameSource, i + 254)} :
                   /\ tx[i + 255] = k + 1
                   /\ Len(tx) >= i + 255 + k
                   /\ SubSeq(tx, i + 256, i + 255 + k) = SubSeq(FrameSource, i + 254, i + 253 + k)


\* C28: once an INIT-ACK with a cookie of more than 1024 bytes has been
\* read, handshake has failed with an error value and the slot holds no
\* cookie
C28_LongCookieRejected ==
  (peer_init # NoPeerInit /\ Len(peer_init.cookie) > COOKIE_CAP /\ pc # "hs_read_init") =>
     /\ pc = "failed"
     /\ result \notin {"none", "Ok"}
     /\ slot = NoCookie
     /\ pool_free = 1


\* ------------------------------------------- the cookie pool on its own
MaxStarts == 2   \* calls of InitSyn::new
MaxOps == 6      \* pool operations in one run

\* box_pool!(P: Cookie) with the one static block B of InitSyn::new: a
\* stack of free blocks; top tells that B is on top, next that B is its own
\* successor
PoolEmpty == [top |-> FALSE, next |-> FALSE]

\* P.manage(block) and the drop of a Box<P>: B is pushed, its successor is
\* the former top
PoolPush(p) == [top |-> TRUE, next |-> p.top]

\* P.alloc(..): the top is popped and the stack continues at its successor
PoolPop(p) ==
  IF p.top THEN [ok |-> TRUE, pool |-> [top |-> p.next, next |-> p.next]]
  ELSE [ok |-> FALSE, pool |-> p]

InitPool ==
  /\ InitCommon
  /\ prog = "pool"
  /\ zid = ZenohID(<<73>>)
  /\ rng_draw = <<0, 0, 0, 0>>
  /\ header = 0
  /\ data = <<>>
  /\ arg = PoolEmpty
  /\ pc = "pool"

\* InitSyn::new, lines 146-151; out.n counts the live Box<P>
PoolManage ==
  /\ pc = "pool"
  /\ Len(log) < MaxOps
  /\ NumEv("manage") < MaxStarts
  /\ arg' = PoolPush(arg)
  /\ log' = Append(log, Ev("manage", out.n, <<>>))
  /\ UNCHANGED << pc, ret, overflow_checks, encVars, tx, flushed, rx, rd, prog, conn_result,
                  hsVars, out >>

\* InitSyn::decode, lines 259-261
PoolAlloc ==
  /\ pc = "pool"
  /\ Len(log) < MaxOps
  /\ \E r \in {PoolPop(arg)} :
        /\ arg' = r.pool
        /\ out' = [out EXCEPT !.status = IF r.ok THEN "Ok" ELSE "MoreCookieAllocated",
                              !.n = IF r.ok THEN @ + 1 ELSE @]
  /\ log' = Append(log, Ev("alloc", out.n, <<>>))
  /\ UNCHANGED << pc, ret, overflow_checks, encVars, tx, flushed, rx, rd, prog, conn_result,
                  hsVars >>

\* a Box<P> goes out of scope
PoolDrop ==
  /\ pc = "pool"
  /\ Len(log) < MaxOps
  /\ out.n > 0
  /\ arg' = PoolPush(arg)
  /\ out' = [out EXCEPT !.n = @ - 1]
  /\ log' = Append(log, Ev("drop", out.n, <<>>))
  /\ UNCHANGED << pc, ret, overflow_checks, encVars, tx, flushed, rx, rd, prog, conn_result,
                  hsVars >>

NextPool == PoolManage \/ PoolAlloc \/ PoolDrop

SpecPool == InitPool /\ [][NextPool]_vars

\* C29: at most one cookie is live in the block, whatever the number of
\* calls of InitSyn::new, and an allocation made while one is live gives
\* MoreCookieAllocated
C29_OneSlot ==
  /\ out.n <= 1
  /\ (log # <<>> /\ LastEv.ev = "alloc" /\ LastEv.n >= 1) => out.status = "MoreCookieAllocated"


\* C30: every OPEN-SYN sent has the T flag exactly when the lease is a
\* multiple of 1000 and carries lease / 1000 then, the lease otherwise; once
\* an OPEN-ACK with the wire lease v has been read, the handshake is
\* established and params.lease is v * 1000 without wrap-around when T is
\* set, v when T is clear
C30_LeaseUnits ==
  /\ \A i \in 1..Len(log) :
        IsMsgSend(log[i], Z_MID_T_OPEN) =>
           /\ (And8(log[i].bytes[1], FLAG_T) = FLAG_T) <=> (Rem1000(U32(Z_TRANSPORT_LEASE)) = 0)
           /\ VarintDec(log[i].bytes, 1, 4).ok
           /\ VarintDec(log[i].bytes, 1, 4).value =
                 (IF Rem1000(U32(Z_TRANSPORT_LEASE)) = 0 THEN Div1000(U32(Z_TRANSPORT_LEASE))
                  ELSE U32(Z_TRANSPORT_LEASE))
  /\ (/\ peer_open # NoPeerOpen
      /\ ~peer_open.as_init
      /\ ~peer_open.corrupt
      /\ peer_open.hdr % 32 = Z_MID_T_OPEN
      /\ And8(peer_open.hdr, FLAG_A) = FLAG_A
      /\ And8(peer_open.hdr, FLAG_Z) = 0
      /\ pc # "hs_read_open") =>
        /\ pc = "established"
        /\ result = "Ok"
        /\ And8(peer_open.hdr, FLAG_T) = 0 => params.lease = peer_open.lease
        /\ And8(peer_open.hdr, FLAG_T) = FLAG_T =>
              /\ ~Mul1000(peer_open.lease).overflow
              /\ params.lease = Mul1000(peer_open.lease).value


\* C31: decoding a varint as u64 consumes at most ceil(64 / 7) + 1 bytes,
\* and it returns a value only when the last byte it consumed has the
\* continuation bit clear: an overrun and a reader that runs out are errors
C31_OverrunFails ==
  pc = "vi_done" =>
     /\ out.n <= (8 * U64_SIZE + 6) \div 7 + 1
     /\ out.status = "Ok" => (out.n >= 1 /\ out.bytes[out.n] < 128)
     /\ (\A i \in 1..Len(out.bytes) : out.bytes[i] >= 128) => out.status # "Ok"


\* ------------------------------------------- frames of the largest payloads
\* payload lengths of send: none, around one full block, the link's mtu
FullFrameLens == {0, 1, 253, 254, LINK_MTU - 1, LINK_MTU}
\* zero-free payloads, payloads with one zero, payloads of zeros only
FullFramePayloads ==
  {LongPayload(n, z) : n \in FullFrameLens, z \in {0, 1, 252, 255, LINK_MTU}}
    \cup {[i \in 1..n |-> 0] : n \in FullFrameLens}

InitFrame ==
  /\ InitCommon
  /\ arg = <<>>
  /\ prog = "frame"
  /\ zid = ZenohID(<<73>>)
  /\ rng_draw = <<0, 0, 0, 0>>
  /\ pc = "codec_call"
  /\ header \in {0, 1, 255}
  /\ data \in FullFramePayloads

NextFrame == CodecSend \/ EncHeader \/ EncLenLSB \/ EncLenMSB \/ EncData \/ EncCrc

SpecFrame == InitFrame /\ [][NextFrame]_vars

\* C32: the bytes written for one frame, overhead bytes, stuffed bytes and
\* terminator, never number more than COBS_BUF_SIZE, the payload being of
\* any length up to 1500
C32_FrameFits ==
  /\ Len(data) <= LINK_MTU
  /\ Len(tx) <= COBS_BUF_SIZE
  /\ pc = "codec_read" => (NumEv("send") = 1 /\ flushed = Len(tx))

C32_Witness ==
  /\ pc = "codec_read"
  /\ header # 0
  /\ Len(data) = LINK_MTU
  /\ \A i \in 1..Len(data) : data[i] # 0
  /\ Len(tx) = LINK_MTU + 14
  /\ tx[Len(tx)] = 0


\* ------------------------------------------------- connect, with progress
\* the program runs on: a step of connect that can be taken is taken
ReadEnabled == pc = "connect_read" /\ rx # <<>> /\ CanRead(rx, COBS_BUF_SIZE)

\* weak fairness of ConnRead is written out, ReadEnabled being its guard
SpecConnectLive ==
  /\ InitConnect
  /\ [][NextConnect]_vars
  /\ WF_vars(ConnSend)
  /\ WF_vars(EncHeader \/ EncLenLSB \/ EncLenMSB \/ EncData \/ EncCrc)
  /\ ([]<>(~ReadEnabled) \/ []<><<ConnRead>>_vars)

\* connect waits and the frame on the line reads as header class c
Answered(c) ==
  /\ pc = "connect_read"
  /\ rx # <<>>
  /\ internal_read(rx, COBS_BUF_SIZE).status = "Ok"
  /\ FirstZero(rx) < Len(rx)
  /\ (c = "connected") <=> HasAckInit(internal_read(rx, COBS_BUF_SIZE).header)
  /\ (c = "retry") <=> (/\ ~HasAckInit(internal_read(rx, COBS_BUF_SIZE).header)
                        /\ HasReset(internal_read(rx, COBS_BUF_SIZE).header))

\* C33: an answer with ACK and INIT leads to connect returning Ok; an answer
\* with RESET leads, however many came before, to one more 250 ms delay, one
\* more INIT frame and connect waiting again; connect never returns while
\* the answers are RESET
C33_ConnectLive ==
  /\ Answered("connected") ~> (conn_result = "Ok" /\ pc = "connected")
  /\ \A n \in 1..(MaxResets + 1) :
        (Answered("retry") /\ NumEv("send") = n)
           ~> (/\ pc = "connect_read"
               /\ conn_result = "none"
               /\ NumEv("delay") = n
               /\ NumEv("send") = n + 1
               /\ tx = InitFrames(n + 1))

C33_Witness ==
  /\ conn_result = "Ok"
  /\ pc = "connected"
  /\ NumEv("delay") = MaxResets
  /\ NumEv("send") = MaxResets + 1
  /\ \A i \in 1..Len(log) : log[i].ev = "read" => (HasReset(log[i].n) \/ i = Len(log))


\* C34: when handshake has returned, with Ok or with an error, after an
\* INIT-ACK was decoded, no cookie is held and the slot is back in the pool
C34_SlotFreeOnReturn ==
  (pc \in {"failed", "established"} /\ (iam # NoMsg \/ peer_open.as_init)) =>
     /\ slot = NoCookie
     /\ pool_free = 1
     /\ InitSyn_decode(PeerInitBytes(BaseInit), PeerInitBytes(BaseInit)[1], pool_free).status = "Ok"

C34_Witness ==
  /\ pc = "failed"
  /\ result = "LinkError"
  /\ iam # NoMsg
  /\ peer_open.corrupt
  /\ rd.status = "CrcError"
  /\ pool_free = 1


\* a call of recv has returned in this step
RecvReturns == pc = "recv_call" /\ Len(log') = Len(log) + 1

\* C35: a call of recv takes a prefix of what the reader holds and leaves
\* the rest in place; the prefix ends with the first 0x00 when that is among
\* the first buf.len() bytes, and is buf.len() bytes long with the result
\* (0, 0) when it is not
C35_FrameBoundaries ==
  [][RecvReturns =>
       \E t \in {log'[Len(log')].bytes} : \E n \in {log'[Len(log')].n} :
          /\ rx = t \o rx'
          /\ rd'.status # "IoError" =>
                IF FirstZero(rx) < n
                THEN /\ t = SubSeq(rx, 1, FirstZero(rx) + 1)
                     /\ t[Len(t)] = 0
                     /\ \A i \in 1..(Len(t) - 1) : t[i] # 0
                ELSE /\ t = SubSeq(rx, 1, n)
                     /\ rd' = ReadResult("Ok", 0, 0, <<>>)
          /\ rd'.status = "IoError" => (rx' = <<>> /\ Len(t) < n /\ \A i \in 1..Len(t) : t[i] # 0)
    ]_vars

C35_Witness ==
  /\ Len(log) = 2
  /\ log[1].bytes = <<3, 1, 0>>
  /\ log[2].bytes = <<1>>
  /\ log[2].n = 1
  /\ rx = <<>>
  /\ rd = ReadResult("Ok", 0, 0, <<>>)


\* ------------------------------------ recv_msg with a buffer of mtu bytes
MtuSpan == 20    \* payload lengths LINK_MTU - MtuSpan .. LINK_MTU are generated

\* payloads of n bytes 0x01, every k-th byte 0x00 when k > 0
MtuPayload(n, k) == [i \in 1..n |-> IF k > 0 /\ i % k = 0 THEN 0 ELSE 1]
MtuPayloads ==
  {MtuPayload(n, k) : n \in {0, 1, 254} \cup ((LINK_MTU - MtuSpan)..LINK_MTU), k \in {0, 100, 253}}

InitLinkRecv ==
  /\ InitCommon
  /\ arg = <<>>
  /\ prog = "link_recv"
  /\ zid = ZenohID(<<73>>)
  /\ rng_draw = <<0, 0, 0, 0>>
  /\ header = 0
  /\ data = <<>>
  /\ pc = "link_wire"

\* the peer sends one well-formed frame
LinkPeerFrame ==
  /\ pc = "link_wire"
  /\ \E h \in {0, 1} : \E p \in MtuPayloads :
        /\ header' = h
        /\ data' = p
        /\ rx' = RefFrame(h, p)
  /\ pc' = "link_recv"
  /\ UNCHANGED << ret, overflow_checks, codec_state, overhead, prev_data, data_start_idx,
                  data_idx, crc_start_idx, crc_idx, crc_bytes, tx, flushed, rd, log, ctxVars >>

\* handshake, lines 86-87: extract_slice(self.intf.mtu), then recv_msg on
\* that slice; recv_msg is recv, which is internal_read
Link_recv_msg ==
  /\ pc = "link_recv"
  /\ CanRead(rx, LINK_MTU)
  /\ \E r \in {internal_read(rx, LINK_MTU)} :
        /\ rd' = r
        /\ pc' = IF r.status = "panic" THEN "panic" ELSE "link_done"
  /\ log' = Append(log, Ev("recv", LINK_MTU, SubSeq(rx, 1, ReadCount(rx, LINK_MTU))))
  /\ rx' = SubSeq(rx, ReadCount(rx, LINK_MTU) + 1, Len(rx))
  /\ UNCHANGED << ret, overflow_checks, encVars, tx, flushed, ctxVars >>

NextLinkRecv == LinkPeerFrame \/ Link_recv_msg

SpecLinkRecv == InitLinkRecv /\ [][NextLinkRecv]_vars

\* C36: recv_msg on a slice of mtu bytes returns the payload of the
\* well-formed frame the peer sent, its payload being of mtu bytes at most,
\* and has taken the whole frame from the reader
C36_MtuFrameReceived ==
  (pc = "link_done" /\ Len(data) <= LINK_MTU) =>
     /\ rd = ReadResult("Ok", Len(data), header, data)
     /\ rx = <<>>


\* ------------------------------------ initial_sn_tx, handshake by handshake
MaxHandshakes == 3   \* handshakes run one after the other

\* SmallRng::seed_from_u64(seed).random(): the first output of a generator
\* is a function of its seed; rng_draw is the one for seed 0
SmallRng_random(seed) ==
  IF seed = 0 THEN rng_draw ELSE [rng_draw EXCEPT ![4] = (@ + 16 * seed) % 256]

\* a handshake that seeds its generator with the number of handshakes run
HandshakeSeedCount(z, k) == k + 1

\* line 125: the seed is the literal 0
HandshakeSeed(z, k) == 0

InitSnRepeat ==
  /\ InitCommon
  /\ arg = <<>>
  /\ prog = "sn_repeat"
  /\ zid = ZenohID(<<73>>)
  /\ header = 0
  /\ data = <<>>
  /\ rng_draw \in RngDraws
  /\ pc = "sn_repeat"

\* one handshake up to line 126, for a client zid z and a peer whose
\* INIT-ACK brings the selector r; arg lists the zids used so far
SnHandshake ==
  /\ pc = "sn_repeat"
  /\ Len(log) < MaxHandshakes
  /\ \E z \in ZidChoices : \E r \in SnSelectors :
     \E draw \in {SmallRng_random(HandshakeSeed(z, Len(log)))} :
        /\ zid' = z
        /\ arg' = Append(arg, z)
        /\ params' = [params EXCEPT !.seq_num_res = r,
                                    !.initial_sn_tx = InitialSnTx(draw, r)]
        /\ log' = Append(log, Ev("sn", r, InitialSnTx(draw, r)))
  /\ UNCHANGED << pc, ret, overflow_checks, encVars, tx, flushed, rx, rd, prog, conn_result,
                  rng_draw, cache, open_cache, pool_free, slot, iam, result,
                  peer_init, peer_open, out >>

NextSnRepeat == SnHandshake

SpecSnRepeat == InitSnRepeat /\ [][NextSnRepeat]_vars

\* C37: two handshakes with the same selector have the same initial_sn_tx,
\* whatever their zids and their places in the sequence of handshakes
C37_SameSelectorSameSn ==
  \A i \in 1..Len(log) : \A j \in 1..Len(log) :
     log[i].n = log[j].n => log[i].bytes = log[j].bytes

C37_Witness ==
  /\ Len(log) >= 3
  /\ log[1].n = 1
  /\ log[2].n = 2
  /\ log[3].n = 1
  /\ arg[1] # arg[3]
  /\ log[1].bytes = log[3].bytes
  /\ log[1].bytes # <<0, 0, 0, 0>>
  /\ log[1].bytes # log[2].bytes


\* ------------------------------------------------------ LinkCapabilities
MaxSets == 4     \* setter calls on one descriptor

\* TransportCap and TransportFlow as their u8 discriminants; 3 stands for
\* the unreachable!() of From<u8> for TransportCap
TransportCaps == {0, 1, 2}
TransportFlows == {0, 1}
CAP_PANIC == 3

\* LinkCapabilities::transport, flow and reliable on the byte b
Cap_transport(b) == IF (b \div 64) % 4 \in TransportCaps THEN (b \div 64) % 4 ELSE CAP_PANIC
Cap_flow(b) == (b \div 32) % 2
Cap_reliable(b) == (b \div 16) % 2 = 1

\* a | b on bytes
Or8(a, b) == (a + b) - And8(a, b)

\* set_transport, set_flow, set_reliable
Cap_set_transport(b, t) == Or8(b, Shl8(t, 6))
Cap_set_flow(b, f) == Or8(b, Shl8(f, 5))
Cap_set_reliable(b, r) == IF r THEN Or8(b, Shl8(1, 4)) ELSE And8(b, 255 - Shl8(1, 4))

\* LinkCapabilities::default(): the descriptor is the byte in arg
InitCaps ==
  /\ InitCommon
  /\ arg = 0
  /\ prog = "caps"
  /\ zid = ZenohID(<<73>>)
  /\ rng_draw = <<0, 0, 0, 0>>
  /\ header = 0
  /\ data = <<>>
  /\ pc = "caps"

CapsFrame ==
  UNCHANGED << pc, ret, overflow_checks, encVars, tx, flushed, rx, rd, prog, conn_result,
               hsVars, out >>

SetTransport ==
  /\ pc = "caps"
  /\ Len(log) < MaxSets
  /\ \E t \in TransportCaps :
        /\ arg' = Cap_set_transport(arg, t)
        /\ log' = Append(log, Ev("set_transport", t, <<>>))
  /\ CapsFrame

SetFlow ==
  /\ pc = "caps"
  /\ Len(log) < MaxSets
  /\ \E f \in TransportFlows :
        /\ arg' = Cap_set_flow(arg, f)
        /\ log' = Append(log, Ev("set_flow", f, <<>>))
  /\ CapsFrame

SetReliable ==
  /\ pc = "caps"
  /\ Len(log) < MaxSets
  /\ \E r \in BOOLEAN :
        /\ arg' = Cap_set_reliable(arg, r)
        /\ log' = Append(log, Ev("set_reliable", IF r THEN 1 ELSE 0, <<>>))
  /\ CapsFrame

NextCaps == SetTransport \/ SetFlow \/ SetReliable

SpecCaps == InitCaps /\ [][NextCaps]_vars

\* the value passed to the most recent call of the setter e, d when it was
\* never called
LastSet(e, d) ==
  LET C == {i \in 1..Len(log) : log[i].ev = e}
  IN IF C = {} THEN d ELSE log[CHOOSE i \in C : \A j \in C : j <= i].n

\* C38: transport(), flow() and reliable() return what the most recent call
\* of their setter was given, and transport() is one of Unicast, Multicast,
\* Raweth
C38_LastSetWins ==
  /\ Cap_transport(arg) \in TransportCaps
  /\ Cap_transport(arg) = LastSet("set_transport", 0)
  /\ Cap_flow(arg) = LastSet("set_flow", 0)
  /\ Cap_reliable(arg) <=> (LastSet("set_reliable", 0) = 1)

====
